---------------------------- MODULE Spec2Model ----------------------------
(***************************************************************************)
(* Model of the LaSRC atmospheric-correction interpolation engine          *)
(* (lasrc/c_version/src/lut_subr.c): atmcorlamb2, atmcorlamb2_new,         *)
(* comproatm, interp_refl_using_scat_angle, comptrans, compsalb, comptg    *)
(* and local_chand, run by pipeline workers over a shared look-up-table    *)
(* store.                                                                  *)
(*                                                                         *)
(* Numbers.  A C float or double is modelled by a rational <<n, d>> with   *)
(* d > 0, kept in lowest terms.  TLC integers are 32 bit wide, so a result *)
(* is kept exact only while its denominator is at most DenLimit and its    *)
(* numerator at most NumLimit in magnitude; beyond, it is rounded to four  *)
(* decimals below 4, to two decimals below 400 and to an integer below     *)
(* NumLimit, and a magnitude above NumLimit counts as an overflow.         *)
(* <<1, 0>> (NF) stands for every non-finite IEEE result (+inf, -inf,      *)
(* NaN): it is what a division by zero yields, it is absorbing for         *)
(* arithmetic and every ordered comparison with it is false.  <<0, 0>>     *)
(* (Unset) marks an output the call has not written.                       *)
(* The libm functions exp, log, pow, sqrt, cos and acos are replaced by    *)
(* rational stand-ins that agree with them at the points named below and   *)
(* keep their sign and monotonicity.                                       *)
(*                                                                         *)
(* Everything that is a pure function of numbers is written as a TLA+      *)
(* function (f[x, y]); what depends on the table store is an operator.     *)
(***************************************************************************)
EXTENDS Integers, Sequences, FiniteSets, TLC

(***************************************************************************)
(* Rational arithmetic                                                     *)
(***************************************************************************)
DenLimit == 100 * 100
Grid == 100 * 100
NumLimit == 4 * Grid

Rat == Int \X Int
NF == <<1, 0>>
Unset == <<0, 0>>

Gcd[a \in Int, b \in Int] == IF b = 0 THEN a ELSE Gcd[b, a % b]

\* n/d, d > 0, in lowest terms
Lowest == [n \in Int, d \in Int |->
    <<n \div Gcd[IF n < 0 THEN -n ELSE n, d], d \div Gcd[IF n < 0 THEN -n ELSE n, d]>>]

\* the numerator of the nearest multiple of 1/g to n/d, for 0 < d <= 100000
\* (\div floors)
RoundNum == [n \in Int, d \in Int, g \in Int |->
    (n \div d) * g + ((2 * (n - (n \div d) * d) * g + d) \div (2 * d))]

\* the grid a number of integer part w is rounded to
GridOf == [w \in Int |->
    IF -4 <= w /\ w < 4 THEN Grid ELSE IF -400 <= w /\ w < 400 THEN 100 ELSE 1]

\* n/d, 0 < d <= 100000, rounded to its grid
Coarsen == [n \in Int, d \in Int |->
    IF n \div d > NumLimit \/ n \div d < -NumLimit THEN NF
    ELSE Lowest[RoundNum[n, d, GridOf[n \div d]], GridOf[n \div d]]]

\* r in lowest terms, kept exact when it is small and rounded otherwise (a
\* large denominator is first scaled down to at most 100000)
Canon == [r \in Rat |->
    IF r[2] <= DenLimit /\ -NumLimit <= r[1] /\ r[1] <= NumLimit THEN r
    ELSE Coarsen[r[1] \div (r[2] \div 100000 + 1), r[2] \div (r[2] \div 100000 + 1)]]

\* the rational n/d (d may be zero or negative)
Q == [n \in Int, d \in Int |->
    IF d = 0 THEN NF
    ELSE Canon[Lowest[IF d < 0 THEN -n ELSE n, IF d < 0 THEN -d ELSE d]]]

I == [n \in Int |-> <<n, 1>>]
IsNum == [x \in Rat |-> x[2] > 0]

Add == [x \in Rat, y \in Rat |->
    IF x[2] <= 0 \/ y[2] <= 0 THEN NF
    ELSE Q[x[1] * y[2] + y[1] * x[2], x[2] * y[2]]]
Neg == [x \in Rat |-> IF x[2] <= 0 THEN NF ELSE <<-x[1], x[2]>>]
Sub == [x \in Rat, y \in Rat |-> Add[x, Neg[y]]]
Mul == [x \in Rat, y \in Rat |->
    IF x[2] <= 0 \/ y[2] <= 0 THEN NF ELSE Q[x[1] * y[1], x[2] * y[2]]]
\* 1/y as a fraction with a positive denominator
Inv == [y \in Rat |->
    IF y[2] <= 0 \/ y[1] = 0 THEN NF
    ELSE IF y[1] > 0 THEN <<y[2], y[1]>> ELSE <<-y[2], -y[1]>>]
Div == [x \in Rat, y \in Rat |-> Mul[x, Inv[y]]]

Lt == [x \in Rat, y \in Rat |->
    x[2] > 0 /\ y[2] > 0 /\ x[1] * y[2] < y[1] * x[2]]
Le == [x \in Rat, y \in Rat |->
    x[2] > 0 /\ y[2] > 0 /\ x[1] * y[2] <= y[1] * x[2]]
Gt == [x \in Rat, y \in Rat |-> Lt[y, x]]
Ge == [x \in Rat, y \in Rat |-> Le[y, x]]

\* (int) x: truncation toward zero; the conversion of a non-finite float is
\* undefined and yields WildInt, an index outside every table
WildInt == 0 - 100000
Trunc == [x \in Rat |->
    IF x[2] <= 0 THEN WildInt
    ELSE IF x[1] >= 0 THEN x[1] \div x[2] ELSE -((-x[1]) \div x[2])]

AbsQ == [x \in Rat |-> IF x[1] < 0 /\ x[2] > 0 THEN <<-x[1], x[2]>> ELSE x]

\* v1 + (v2 - v1) * f
Blend == [v1 \in Rat, v2 \in Rat, f \in Rat |-> Add[v1, Mul[Sub[v2, v1], f]]]

(***************************************************************************)
(* libm stand-ins                                                          *)
(***************************************************************************)
\* exp: 1 + x + x^2/2 for x >= 0 and its reciprocal for x < 0; Exp[0] = 1,
\* positive and increasing like exp
ExpPos == [x \in Rat |-> Add[I[1], Add[x, Mul[Mul[x, x], <<1, 2>>]]]]
Exp == [x \in Rat |->
    IF x[2] <= 0 THEN NF
    ELSE IF x[1] >= 0 THEN ExpPos[x] ELSE Mul[I[1], Inv[ExpPos[Neg[x]]]]]

IPow[x \in Rat, k \in Nat] == IF k = 0 THEN I[1] ELSE Mul[x, IPow[x, k - 1]]

\* pow: exact for an integral exponent; 1 + y (x - 1) for a fractional
\* exponent of a positive base; NaN for a fractional power of a negative base
Pow == [x \in Rat, y \in Rat |->
    IF x[2] <= 0 \/ y[2] <= 0 THEN NF
    ELSE IF y[2] = 1
         THEN IF y[1] >= 0 THEN IPow[x, y[1]] ELSE Mul[I[1], Inv[IPow[x, -y[1]]]]
         ELSE IF x[1] < 0 THEN NF
              ELSE Add[I[1], Mul[y, Sub[x, I[1]]]]]

\* integer square root by bisection on [lo, hi)
ISqrtIn[n \in Int, lo \in Int, hi \in Int] ==
    IF hi - lo <= 1 THEN lo
    ELSE IF ((lo + hi) \div 2) * ((lo + hi) \div 2) <= n
         THEN ISqrtIn[n, (lo + hi) \div 2, hi]
         ELSE ISqrtIn[n, lo, (lo + hi) \div 2]
ISqrt == [n \in Int |-> ISqrtIn[n, 0, 40000]]

\* sqrt: exact on squares of rationals, else to two decimals; NaN below zero
Sqrt == [x \in Rat |->
    IF x[2] <= 0 \/ x[1] < 0 THEN NF
    ELSE IF ISqrt[x[1]] * ISqrt[x[1]] = x[1] /\ ISqrt[x[2]] * ISqrt[x[2]] = x[2]
         THEN Q[ISqrt[x[1]], ISqrt[x[2]]]
         ELSE Q[ISqrt[RoundNum[x[1], x[2], 10000]], 100]]

(***************************************************************************)
(* Table shapes                                                            *)
(***************************************************************************)
NPRES_VALS == 7
NAOT_VALS == 22
NSUNANGLE_VALS == 22
NSOLAR_ZEN_VALS == 22
NVIEW_ZEN_VALS == 20
NSOLAR_VALS == 8000
NSRL_BANDS == 8
NSRS_BANDS == 11
NREFLL_BANDS == 7
NREFLS_BANDS == 11
DNL_BAND7 == 6
DNS_BAND12 == 10
NAOTxNSOLAR_VALS == NAOT_VALS * NSOLAR_VALS
NAOTxNSUNANGLE_VALS == NAOT_VALS * NSUNANGLE_VALS

Sats == {"SAT_LANDSAT_8", "SAT_LANDSAT_9", "SAT_SENTINEL_2"}
IsLandsat == [sat \in Sats |-> sat = "SAT_LANDSAT_8" \/ sat = "SAT_LANDSAT_9"]
NSR_BANDS == [sat \in Sats |-> IF IsLandsat[sat] THEN NSRL_BANDS ELSE NSRS_BANDS]

\* band centre wavelengths in nanometres
landsat_lambda == <<443, 480, 585, 655, 865, 1610, 2200>>
sentinel_lambda == <<443, 490, 560, 665, 705, 740, 783, 842, 865, 1610, 2190>>

\* AOT grid at 550 nm, in hundredths: the values whose logarithms comproatm
\* caches
AotHundredths == <<1, 5, 10, 15, 20, 30, 40, 60, 80, 100, 120, 140, 160, 180,
                   200, 230, 260, 300, 350, 400, 450, 500>>
\* ln of the AOT grid values, in ten-thousandths
LnGrid == <<-46052, -29957, -23026, -18971, -16094, -12040, -9163, -5108,
            -2231, 0, 1823, 3365, 4700, 5878, 6931, 8329, 9555, 10986,
            12528, 13863, 15041, 16094>>

\* the nodes (ascending) and the values of the piecewise-linear stand-ins
Curves == {"cos", "acos", "log"}
CurveLen == [c \in Curves |-> IF c = "log" THEN NAOT_VALS ELSE 5]
CurveX == [c \in Curves, k \in Nat |->
    CASE c = "cos" -> I[<<0, 60, 90, 120, 180>>[k]]
      [] c = "acos" -> Q[<<-2, -1, 0, 1, 2>>[k], 2]
      [] c = "log" -> Q[AotHundredths[k], 100]]
CurveY == [c \in Curves, k \in Nat |->
    CASE c = "cos" -> Q[<<2, 1, 0, -1, -2>>[k], 2]
      [] c = "acos" -> I[<<180, 120, 90, 60, 0>>[k]]
      [] c = "log" -> Q[LnGrid[k], 10000]]

\* the segment of curve c that holds x: the first k with x <= node k+1,
\* the last segment beyond
SegOf[c \in Curves, x \in Rat, k \in Nat] ==
    IF k >= CurveLen[c] - 1 THEN CurveLen[c] - 1
    ELSE IF Le[x, CurveX[c, k + 1]] THEN k ELSE SegOf[c, x, k + 1]
\* the line through nodes k and k+1 of curve c, at x
SegLine == [c \in Curves, x \in Rat, k \in Nat |->
    Add[CurveY[c, k], Mul[Sub[CurveY[c, k + 1], CurveY[c, k]],
                          Div[Sub[x, CurveX[c, k]],
                              Sub[CurveX[c, k + 1], CurveX[c, k]]]]]]
PLin == [c \in Curves, x \in Rat |-> SegLine[c, x, SegOf[c, x, 1]]]

\* the angle x >= 0 (degrees) folded into [0, 180]
FoldDeg == [x \in Rat |->
    IF Gt[x, I[360]] THEN Sub[x, I[360]]
    ELSE IF Gt[x, I[180]] THEN Sub[I[360], x] ELSE x]
\* cos (x * DEG2RAD), x in degrees: exact at 0, 60, 90, 120, 180 (and by
\* symmetry and period elsewhere), linear in between
CosDeg == [x \in Rat |->
    IF ~IsNum[x] THEN NF ELSE PLin["cos", FoldDeg[AbsQ[x]]]]

\* acos (c) * RAD2DEG: the inverse of CosDeg on [-1, 1]; NaN outside
AcosDeg == [c \in Rat |->
    IF ~IsNum[c] \/ Gt[c, I[1]] \/ Lt[c, I[-1]] THEN NF ELSE PLin["acos", c]]

\* log: ln to four decimals at the 22 AOT grid values, linear in between
\* and beyond; NaN or -inf at and below 0
Log == [x \in Rat |->
    IF ~IsNum[x] \/ x[1] <= 0 THEN NF ELSE PLin["log", x]]

(***************************************************************************)
(* The look-up-table store.  The tables are far too large to enumerate, so *)
(* the store is a record [kind, over]: kind names the content the loader   *)
(* delivered ("full": every table populated; "zero": intrinsic             *)
(* reflectance, transmission and spherical albedo all zero) and over maps  *)
(* <<table, index>> to the value of every element written since.           *)
(***************************************************************************)
Kinds == {"full", "zero"}

\* the angle grids the pipeline builds the tables with and passes to every
\* call: solar zenith 0, 4, ..., 84; view zenith 0, 2.84, 6.52, ...
XTSMIN == I[0]
XTSSTEP == I[4]
XTVMIN == Q[71, 25]
XTVSTEP == Q[92, 25]

\* surface pressure levels (mb), descending
TpresTab == [k \in 0..(NPRES_VALS - 1) |->
               I[<<1050, 1013, 900, 800, 700, 600, 500>>[k + 1]]]
AotTab == [k \in 0..(NAOT_VALS - 1) |-> Q[AotHundredths[k + 1], 100]]
\* readluts: tts[j] = xtsmin + xtsstep * j
TtsTab == [j \in 0..(NSUNANGLE_VALS - 1) |-> Add[XTSMIN, Mul[XTSSTEP, I[j]]]]
\* view zenith of row iv (the same for every solar column), in 25ths of a
\* degree: 0, 2.84, 6.52, ...
TtvN == [iv \in 0..(NVIEW_ZEN_VALS - 1) |-> IF iv = 0 THEN 0 ELSE 71 + 92 * (iv - 1)]
\* scattering-angle range of the geometry cell (iv, is), in 25ths of a
\* degree: 180 - |tts - ttv| and 180 - (tts + ttv)
TsmaxN == [iv \in 0..(NVIEW_ZEN_VALS - 1), is \in 0..(NSOLAR_ZEN_VALS - 1) |->
    IF 100 * is >= TtvN[iv] THEN 4500 - (100 * is - TtvN[iv])
    ELSE 4500 - (TtvN[iv] - 100 * is)]
TsminN == [iv \in 0..(NVIEW_ZEN_VALS - 1), is \in 0..(NSOLAR_ZEN_VALS - 1) |->
    4500 - (100 * is + TtvN[iv])]
\* azimuth bins of the cell: one sample per 4 degrees of scattering angle
\* from tsmax down, and a last one at tsmin
NbfiTab == [iv \in 0..(NVIEW_ZEN_VALS - 1), is \in 0..(NSOLAR_ZEN_VALS - 1) |->
    IF iv = 0 \/ is = 0 THEN 1
    ELSE ((TsmaxN[iv, is] - TsminN[iv, is]) \div 100) + 2]
\* bins of the cells (0, is) .. (iv, is)
NbficTab[iv \in 0..(NVIEW_ZEN_VALS - 1), is \in 0..(NSOLAR_ZEN_VALS - 1)] ==
    IF iv = 0 THEN NbfiTab[0, is] ELSE NbfiTab[iv, is] + NbficTab[iv - 1, is]
\* first element of solar column is in the scattering dimension of rolutt
IndtsTab[is \in 0..(NSUNANGLE_VALS - 1)] ==
    IF is = 0 THEN 0 ELSE NbficTab[NVIEW_ZEN_VALS - 1, is - 1] + IndtsTab[is - 1]

TableNames == {"tpres", "aot550nm", "rolutt", "transt", "sphalbt", "normext",
               "tsmax", "tsmin", "nbfic", "nbfi", "tts", "indts", "ttv",
               "tauray", "ogtransa1", "ogtransb0", "ogtransb1", "wvtransa",
               "wvtransb", "oztransa", "landsat_lambda", "sentinel_lambda"}

\* number of elements of each table
SizeOf == [name \in TableNames, sat \in Sats |->
    CASE name = "tpres" -> NPRES_VALS
      [] name = "aot550nm" -> NAOT_VALS
      [] name = "rolutt" -> NSR_BANDS[sat] * NPRES_VALS * NAOTxNSOLAR_VALS
      [] name = "transt" -> NSR_BANDS[sat] * NPRES_VALS * NAOTxNSUNANGLE_VALS
      [] name \in {"sphalbt", "normext"} -> NSR_BANDS[sat] * NPRES_VALS * NAOT_VALS
      [] name \in {"tsmax", "tsmin", "nbfic", "nbfi", "ttv"} ->
             NVIEW_ZEN_VALS * NSOLAR_ZEN_VALS
      [] name = "tts" -> NSOLAR_ZEN_VALS
      [] name = "indts" -> NSUNANGLE_VALS
      [] name = "landsat_lambda" -> NREFLL_BANDS
      [] name = "sentinel_lambda" -> NREFLS_BANDS
      [] OTHER -> NSR_BANDS[sat]]

\* the content the loader delivered, by flattened index
Loaded == [kind \in Kinds, name \in TableNames, i \in Nat |->
    CASE name = "tpres" -> TpresTab[i]
      [] name = "aot550nm" -> AotTab[i]
      [] name = "tts" -> TtsTab[i]
      [] name = "indts" -> I[IndtsTab[i]]
      [] name = "ttv" -> Q[TtvN[i \div NSOLAR_ZEN_VALS], 25]
      [] name = "tsmax" -> Q[TsmaxN[i \div NSOLAR_ZEN_VALS, i % NSOLAR_ZEN_VALS], 25]
      [] name = "tsmin" -> Q[TsminN[i \div NSOLAR_ZEN_VALS, i % NSOLAR_ZEN_VALS], 25]
      [] name = "nbfi" -> I[NbfiTab[i \div NSOLAR_ZEN_VALS, i % NSOLAR_ZEN_VALS]]
      [] name = "nbfic" -> I[NbficTab[i \div NSOLAR_ZEN_VALS, i % NSOLAR_ZEN_VALS]]
      [] name = "rolutt" ->
             IF kind = "zero" THEN I[0]
             ELSE Q[1 + ((7 * (i \div (NPRES_VALS * NAOTxNSOLAR_VALS))
                          + ((i \div NAOTxNSOLAR_VALS) % NPRES_VALS)
                            * ((i \div NAOTxNSOLAR_VALS) % NPRES_VALS)
                          + 3 * ((i \div NSOLAR_VALS) % NAOT_VALS)
                              * ((i \div NSOLAR_VALS) % NAOT_VALS)
                          + 5 * (i % NSOLAR_VALS)
                          + (((i % NSOLAR_VALS) * (i % NSOLAR_VALS)) % 11)) % 47),
                    100]
      [] name = "transt" ->
             IF kind = "zero" \/ i % NSUNANGLE_VALS = NSUNANGLE_VALS - 1 THEN I[0]
             ELSE Q[50 + ((3 * (i \div (NPRES_VALS * NAOTxNSUNANGLE_VALS))
                           + ((i \div NAOTxNSUNANGLE_VALS) % NPRES_VALS)
                             * ((i \div NAOTxNSUNANGLE_VALS) % NPRES_VALS)
                           + 2 * ((i \div NSUNANGLE_VALS) % NAOT_VALS)
                           + (i % NSUNANGLE_VALS) * (i % NSUNANGLE_VALS)) % 41),
                    100]
      [] name = "sphalbt" ->
             IF kind = "zero" THEN I[0]
             ELSE Q[1 + (((i \div (NPRES_VALS * NAOT_VALS))
                          + 2 * ((i \div NAOT_VALS) % NPRES_VALS)
                          + (i % NAOT_VALS) * (i % NAOT_VALS)) % 31), 100]
      [] name = "normext" ->
             Q[8 + (((i \div (NPRES_VALS * NAOT_VALS))
                     + ((i \div NAOT_VALS) % NPRES_VALS) + (i % NAOT_VALS)) % 5), 10]
      [] name = "tauray" -> Q[1 + (i % 4), 20]
      [] name = "oztransa" -> Q[0 - (i % 3), 10]
      [] name = "wvtransa" -> Q[i % 3, 10]
      [] name = "wvtransb" -> Q[1 + (i % 2), 2]
      [] name = "ogtransa1" -> Q[i % 2, 10]
      [] name = "ogtransb0" -> Q[i % 2, 2]
      [] name = "ogtransb1" -> Q[i % 3, 4]
      [] name = "landsat_lambda" -> Q[landsat_lambda[i + 1], 1000]
      [] name = "sentinel_lambda" -> Q[sentinel_lambda[i + 1], 1000]]

\* what a read outside a table's shape, or of a variable never assigned,
\* finds there: undefined behaviour, any float; junk is the memory image
\* the call happens to run in
JunkVals == <<I[0], Q[7, 2], I[-3], NF, I[1]>>
Junk == [junk \in Int, i \in Int |->
    JunkVals[((junk + (IF i < 0 THEN -i ELSE i)) % Len(JunkVals)) + 1]]

InShape == [name \in TableNames, sat \in Sats, i \in Int |->
    0 <= i /\ i < SizeOf[name, sat]]

(***************************************************************************)
(* The engine.  E = [T, sat, junk] is what a call runs in: the table store *)
(* T it is lent, the satellite, and the memory image junk.                 *)
(***************************************************************************)
ERROR == "ERROR"
SUCCESS == "SUCCESS"

\* F applied to the value v: v is computed once and named in F
With(v, F(_)) == F(v)

\* table[i] as the engine reads it
Tb(E, name, i) ==
    IF ~InShape[name, E.sat, i] THEN Junk[E.junk, i]
    ELSE IF <<name, i>> \in DOMAIN E.T.over THEN E.T.over[<<name, i>>]
    ELSE Loaded[E.T.kind, name, i]

\* a last extinction-aware band that is one band short
MaxBandIndxShort == [sat \in Sats |->
    IF IsLandsat[sat] THEN DNL_BAND7 - 1 ELSE DNS_BAND12 - 1]

\* atmcorlamb2 / atmcorlamb2_new: the sensor's wavelength array and its
\* last extinction-aware band
MaxBandIndx == [sat \in Sats |->
    IF IsLandsat[sat] THEN DNL_BAND7
    ELSE IF sat = "SAT_SENTINEL_2" THEN DNS_BAND12 ELSE 0]
LambdaOf == [sat \in Sats |->
    IF IsLandsat[sat] THEN "landsat_lambda" ELSE "sentinel_lambda"]
lambda_sf == Q[20, 11]

\* the modified AOT limited to the top of the AOT table
ModifiedAotCapped(E, raot550nm, iband, eps) ==
    With(IF Lt[eps, I[0]] \/ iband > MaxBandIndx[E.sat] THEN raot550nm
         ELSE Mul[Div[raot550nm,
                      Tb(E, "normext", iband * NPRES_VALS * NAOT_VALS + 3)],
                  Pow[Mul[Tb(E, LambdaOf[E.sat], iband), lambda_sf], Neg[eps]]],
         LAMBDA m : IF Ge[m, Tb(E, "aot550nm", NAOT_VALS - 1)]
                    THEN Tb(E, "aot550nm", NAOT_VALS - 1) ELSE m)

\* atmcorlamb2: the AOT modified by the angstrom coefficient
ModifiedAot(E, raot550nm, iband, eps) ==
    IF Lt[eps, I[0]] \/ iband > MaxBandIndx[E.sat] THEN raot550nm
    ELSE Mul[Div[raot550nm, Tb(E, "normext", iband * NPRES_VALS * NAOT_VALS + 3)],
             Pow[Mul[Tb(E, LambdaOf[E.sat], iband), lambda_sf], Neg[eps]]]

\* the value a scan "for (i = 0; i < n; i++) if (cond(i)) found = i" leaves
\* in found, initialised to 0: S is the set of i the condition holds for
LastOf(S) == IF S = {} THEN 0 ELSE CHOOSE m \in S : \A k \in S : k <= m

\* a pressure scan with the test of the AOT scan
PresIndexAsAot(E, pres) ==
    LastOf({ip \in 0..(NPRES_VALS - 2) : Gt[pres, Tb(E, "tpres", ip)]})

\* a pressure scan that stops one entry earlier
PresIndexShort(E, pres) ==
    LastOf({ip \in 0..(NPRES_VALS - 3) : Lt[pres, Tb(E, "tpres", ip)]})

\* atmcorlamb2: the last ip in [0, NPRES_VALS-2] with pres < tpres[ip], else 0
PresIndex(E, pres) ==
    LastOf({ip \in 0..(NPRES_VALS - 2) : Lt[pres, Tb(E, "tpres", ip)]})

\* an AOT scan over the whole AOT table
AotIndexWhole(E, mraot550nm) ==
    LastOf({iaot \in 0..(NAOT_VALS - 1) : Gt[mraot550nm, Tb(E, "aot550nm", iaot)]})

\* an AOT scan with the test of the pressure scan
AotIndexAsPressure(E, mraot550nm) ==
    LastOf({iaot \in 0..20 : Lt[mraot550nm, Tb(E, "aot550nm", iaot)]})

\* atmcorlamb2: the last iaot in [0, 20] with mraot550nm > aot550nm[iaot], else 0
AotIndex(E, mraot550nm) ==
    LastOf({iaot \in 0..20 : Gt[mraot550nm, Tb(E, "aot550nm", iaot)]})

\* a view index kept inside the view angle table
ViewIndexCapped == [xtv \in Rat, xtvmin \in Rat, xtvstep \in Rat |->
    IF Le[xtv, xtvmin] THEN 0
    ELSE IF Trunc[Add[Div[Sub[xtv, xtvmin], xtvstep], I[1]]] > NVIEW_ZEN_VALS - 2
         THEN NVIEW_ZEN_VALS - 2
         ELSE Trunc[Add[Div[Sub[xtv, xtvmin], xtvstep], I[1]]]]

\* atmcorlamb2: index in the view angle table
ViewIndex == [xtv \in Rat, xtvmin \in Rat, xtvstep \in Rat |->
    IF Le[xtv, xtvmin] THEN 0
    ELSE Trunc[Add[Div[Sub[xtv, xtvmin], xtvstep], I[1]]]]

\* atmcorlamb2, comptrans: index in the sun angle table
SunIndex == [xts \in Rat, xtsmin \in Rat, xtsstep \in Rat |->
    IF Le[xts, xtsmin] THEN 0
    ELSE Trunc[Div[Sub[xts, xtsmin], xtsstep]]]

\* (x - a) / (b - a)
Ratio == [x \in Rat, a \in Rat, b \in Rat |-> Div[Sub[x, a], Sub[b, a]]]

\* the pressure ratio measured from the upper index
DpresFromUpper(E, ip1, ip2, pres) ==
    Ratio[pres, Tb(E, "tpres", ip2), Tb(E, "tpres", ip1)]

\* compsalb, comptrans, comproatm: the pressure ratio
Dpres(E, ip1, ip2, pres) == Ratio[pres, Tb(E, "tpres", ip1), Tb(E, "tpres", ip2)]

\* the AOT ratio measured from the upper index
DeltaAotFromUpper(E, iaot1, iaot2, raot550nm) ==
    Ratio[raot550nm, Tb(E, "aot550nm", iaot2), Tb(E, "aot550nm", iaot1)]

\* compsalb, comptrans: the AOT ratio
DeltaAot(E, iaot1, iaot2, raot550nm) ==
    Ratio[raot550nm, Tb(E, "aot550nm", iaot1), Tb(E, "aot550nm", iaot2)]

\* compsalb: the albedo at pressure level ip, interpolated over AOT
SalbAtPres(E, ip, iaot1, iaot2, raot550nm, iband) ==
    Blend[Tb(E, "sphalbt", iband * NPRES_VALS * NAOT_VALS + ip * NAOT_VALS + iaot1),
          Tb(E, "sphalbt", iband * NPRES_VALS * NAOT_VALS + ip * NAOT_VALS + iaot2),
          DeltaAot(E, iaot1, iaot2, raot550nm)]

\* compsalb: *satm
compsalb(E, ip1, ip2, iaot1, iaot2, raot550nm, iband, pres) ==
    Blend[SalbAtPres(E, ip1, iaot1, iaot2, raot550nm, iband),
          SalbAtPres(E, ip2, iaot1, iaot2, raot550nm, iband),
          Dpres(E, ip1, ip2, pres)]

\* comptrans: the transmission at one (pressure, AOT) corner, interpolated
\* over the zenith angle; base is the index of the corner's angle row
TransRow(E, base, its, xts) ==
    Blend[Tb(E, "transt", base + its), Tb(E, "transt", base + its + 1),
          Mul[Sub[xts, Tb(E, "tts", its)], Q[1, 4]]]
TransCorner(E, ip, iaot, its, xts, iband) ==
    TransRow(E, iband * NPRES_VALS * NAOTxNSUNANGLE_VALS
                + ip * NAOTxNSUNANGLE_VALS + iaot * NSUNANGLE_VALS, its, xts)

\* comptrans: the transmission at pressure level ip, interpolated over AOT
TransAtPres(E, ip, iaot1, iaot2, its, xts, raot550nm, iband) ==
    Blend[TransCorner(E, ip, iaot1, its, xts, iband),
          TransCorner(E, ip, iaot2, its, xts, iband),
          DeltaAot(E, iaot1, iaot2, raot550nm)]

\* comptrans: [err |-> the error handler was invoked, val |-> *xtts, or
\* Unset when the function returned without assigning it]
comptrans(E, ip1, ip2, iaot1, iaot2, xts, raot550nm, iband, pres, xtsstep, xtsmin) ==
    IF SunIndex[xts, xtsmin, xtsstep] > 19 THEN [err |-> TRUE, val |-> Unset]
    ELSE [err |-> FALSE,
          val |-> Blend[TransAtPres(E, ip1, iaot1, iaot2,
                                    SunIndex[xts, xtsmin, xtsstep], xts,
                                    raot550nm, iband),
                        TransAtPres(E, ip2, iaot1, iaot2,
                                    SunIndex[xts, xtsmin, xtsstep], xts,
                                    raot550nm, iband),
                        Dpres(E, ip1, ip2, pres)]]

\* a cache whose entries 13 and 14 are equal
logaot550nmFlat == [k \in 0..21 |->
    Q[<<-46052, -29957, -23026, -18971, -16094, -12040, -9163, -5108,
        -2231, 0, 1823, 3365, 4700, 5878, 5878, 8329, 9555, 10986,
        12528, 13863, 15041, 16094>>[k + 1], 10000]]

\* comproatm: float logaot550nm[22], the literals to four decimals
logaot550nm == [k \in 0..21 |->
    Q[<<-46052, -29957, -23026, -18971, -16094, -12040, -9163, -5108,
        -2231, 0, 1823, 3365, 4700, 5878, 6932, 8329, 9555, 10986,
        12528, 13863, 15041, 16094>>[k + 1], 10000]]

FOUR_PTS == 4

\* interp_refl_using_scat_angle: "if (isca <= 0) isca = 1"
AtLeast1 == [isca \in Int |-> IF isca <= 0 THEN 1 ELSE isca]
\* interp_refl_using_scat_angle: (int) ((xtsmax[i] - scaa) * 0.25 + 1),
\* raised to 1 when it is not positive
ScaIndex == [xtsmax \in Rat, scaa \in Rat |->
    AtLeast1[Trunc[Add[Mul[Sub[xtsmax, scaa], <<1, 4>>], I[1]]]]]
\* xtsmax[i] - (isca - 1) * 4.0
Sca1 == [xtsmax \in Rat, isca \in Int |-> Sub[xtsmax, I[(isca - 1) * 4]]]
\* the bracket [isca, sca1, sca2] of the scattering angle within a cell of
\* nbfi samples, isca being the index computed from the angle
ScaBracket == [xtsmax \in Rat, xtsmin \in Rat, nbfi \in Rat, isca \in Int |->
    IF Lt[I[isca + 1], nbfi]
    THEN [isca |-> isca, sca1 |-> Sca1[xtsmax, isca],
          sca2 |-> Sub[Sca1[xtsmax, isca], I[4]]]
    ELSE [isca |-> Trunc[Sub[nbfi, I[1]]],
          sca1 |-> Sca1[xtsmax, Trunc[Sub[nbfi, I[1]]]],
          sca2 |-> xtsmin]]
ScaCell == [xtsmax \in Rat, xtsmin \in Rat, scaa \in Rat, nbfi \in Rat |->
    ScaBracket[xtsmax, xtsmin, nbfi, ScaIndex[xtsmax, scaa]]]
\* roinf + (rosup - roinf) * (scaa - sca1) / (sca2 - sca1)
ScatLine == [roinf \in Rat, rosup \in Rat, scaa \in Rat, sca1 \in Rat, sca2 \in Rat |->
    Add[roinf, Div[Mul[Sub[rosup, roinf], Sub[scaa, sca1]], Sub[sca2, sca1]]]]

\* interp_refl_using_scat_angle: the reflectance between the two samples
\* that bracket c of the column starting at indx
ScatRefl(E, indx, c, scaa) ==
    ScatLine[Tb(E, "rolutt", indx + c.isca - 1), Tb(E, "rolutt", indx + c.isca),
             scaa, c.sca1, c.sca2]

\* the corner interpolated as soon as one of its indices is not zero
CornerReflEither(E, i, its, itv, xtsmax, xtsmin, scaa, nbfic, nbfi, rolutt_indx) ==
    With(rolutt_indx + Trunc[Sub[Add[Tb(E, "indts", its + (i % 2)), nbfic[i]],
                                 nbfi[i]]],
         LAMBDA indx :
            IF its + (i % 2) # 0 \/ (IF i < 2 THEN itv ELSE itv + 1) # 0
            THEN ScatRefl(E, indx, ScaCell[xtsmax[i], xtsmin[i], scaa, nbfi[i]], scaa)
            ELSE Tb(E, "rolutt", indx))

\* interp_refl_using_scat_angle: ro[i], the reflectance at corner i
\* (xtsmax, xtsmin, nbfic, nbfi are the four-element arrays of the caller,
\* indexed 0..3)
CornerRefl(E, i, its, itv, xtsmax, xtsmin, scaa, nbfic, nbfi, rolutt_indx) ==
    With(rolutt_indx + Trunc[Sub[Add[Tb(E, "indts", its + (i % 2)), nbfic[i]],
                                 nbfi[i]]],
         LAMBDA indx :
            IF its + (i % 2) # 0 /\ (IF i < 2 THEN itv ELSE itv + 1) # 0
            THEN ScatRefl(E, indx, ScaCell[xtsmax[i], xtsmin[i], scaa, nbfi[i]], scaa)
            ELSE Tb(E, "rolutt", indx))

\* the blend with the corners 1 and 2 exchanged
BilinearSwapped == [ro \in [0..(FOUR_PTS - 1) -> Rat], t \in Rat, u \in Rat |->
    Add[Add[Add[ro[3], Mul[u, Sub[ro[2], ro[3]]]],
            Mul[t, Sub[ro[1], ro[3]]]],
        Mul[Mul[u, t], Add[Sub[Sub[ro[0], ro[1]], ro[2]], ro[3]]]]]
\* ro[3] + u (ro[1] - ro[3]) + t (ro[2] - ro[3]) + u t (ro[0] - ro[1] - ro[2] + ro[3])
Bilinear == [ro \in [0..(FOUR_PTS - 1) -> Rat], t \in Rat, u \in Rat |->
    Add[Add[Add[ro[3], Mul[u, Sub[ro[1], ro[3]]]],
            Mul[t, Sub[ro[2], ro[3]]]],
        Mul[Mul[u, t], Add[Sub[Sub[ro[0], ro[1]], ro[2]], ro[3]]]]]

\* interp_refl_using_scat_angle: the bilinear blend of the four corners
interp_refl_using_scat_angle(E, its, itv, xtsmax, xtsmin, scaa, nbfic, nbfi, rolutt_indx, t, u) ==
    Bilinear[[i \in 0..(FOUR_PTS - 1) |->
                 CornerRefl(E, i, its, itv, xtsmax, xtsmin, scaa, nbfic, nbfi,
                            rolutt_indx)], t, u]

\* comproatm: the scattering angle
ScatAngle == [xmus \in Rat, xmuv \in Rat, cosxfi \in Rat |->
    AcosDeg[Sub[Mul[Neg[xmus], xmuv],
                Mul[Mul[cosxfi, Sqrt[Sub[I[1], Mul[xmus, xmus]]]],
                    Sqrt[Sub[I[1], Mul[xmuv, xmuv]]]]]]]

\* comproatm: the four geometry cells [itv][its], [itv][its+1],
\* [itv+1][its], [itv+1][its+1] of a scattering-geometry table
FourCells(E, name, its, itv) ==
    [i \in 0..(FOUR_PTS - 1) |->
        Tb(E, name, itv * NSOLAR_ZEN_VALS + its + (i % 2)
                    + (i \div 2) * NSOLAR_ZEN_VALS)]

\* (hi - x) / (hi - lo)
UpRatio == [x \in Rat, lo \in Rat, hi \in Rat |-> Div[Sub[hi, x], Sub[hi, lo]]]

\* comproatm: the sun and view angle interpolation parameters
SunParam(E, its, xts) == UpRatio[xts, Tb(E, "tts", its), Tb(E, "tts", its + 1)]
ViewParam(E, its, itv, xtv) ==
    UpRatio[xtv, Tb(E, "ttv", itv * NSOLAR_ZEN_VALS + its),
            Tb(E, "ttv", (itv + 1) * NSOLAR_ZEN_VALS + its)]

\* the linear AOT ratio in place of the log-space one
LogDeltaAotLinear == [iaot1 \in Int, iaot2 \in Int, raot550nm \in Rat |->
    Div[Sub[raot550nm, AotTab[iaot1]], Sub[AotTab[iaot2], AotTab[iaot1]]]]
\* comproatm: the log-space AOT ratio
LogDeltaAot == [iaot1 \in Int, iaot2 \in Int, raot550nm \in Rat |->
    Div[Sub[Log[raot550nm], logaot550nm[iaot1]],
        Sub[logaot550nm[iaot2], logaot550nm[iaot1]]]]

\* comproatm: the reflectance at pressure level ip, interpolated over the
\* scattering angle at both AOT levels and then over log AOT
RoatmAtPres(E, ip, iaot1, iaot2, raot550nm, iband, its, itv, xtsmax, xtsmin, scaa, nbfic, nbfi, t, u) ==
    Blend[interp_refl_using_scat_angle(E, its, itv, xtsmax, xtsmin, scaa, nbfic,
              nbfi, iband * NPRES_VALS * NAOTxNSOLAR_VALS + ip * NAOTxNSOLAR_VALS
                    + iaot1 * NSOLAR_VALS, t, u),
          interp_refl_using_scat_angle(E, its, itv, xtsmax, xtsmin, scaa, nbfic,
              nbfi, iband * NPRES_VALS * NAOTxNSOLAR_VALS + ip * NAOTxNSOLAR_VALS
                    + iaot2 * NSOLAR_VALS, t, u),
          LogDeltaAot[iaot1, iaot2, raot550nm]]

\* comproatm: the blend over pressure, given the locals the function
\* initialises first
RoatmBlend(E, ip1, ip2, iaot1, iaot2, raot550nm, iband, pres, its, itv, xtsmax, xtsmin, scaa, nbfic, nbfi, t, u) ==
    Blend[RoatmAtPres(E, ip1, iaot1, iaot2, raot550nm, iband, its, itv, xtsmax,
                      xtsmin, scaa, nbfic, nbfi, t, u),
          RoatmAtPres(E, ip2, iaot1, iaot2, raot550nm, iband, its, itv, xtsmax,
                      xtsmin, scaa, nbfic, nbfi, t, u),
          Dpres(E, ip1, ip2, pres)]

\* comproatm: *roatm
comproatm(E, ip1, ip2, iaot1, iaot2, xts, xtv, xmus, xmuv, cosxfi, raot550nm, iband, pres, its, itv) ==
    RoatmBlend(E, ip1, ip2, iaot1, iaot2, raot550nm, iband, pres, its, itv,
               FourCells(E, "tsmax", its, itv), FourCells(E, "tsmin", its, itv),
               ScatAngle[xmus, xmuv, cosxfi], FourCells(E, "nbfic", its, itv),
               FourCells(E, "nbfi", its, itv), SunParam(E, its, xts),
               ViewParam(E, its, itv, xtv))

\* comptg: exp (-a * pow (x, b)) above the threshold 1.0E-06, else 1
AboveMicro == [x \in Rat |-> x[2] > 0 /\ x[1] > 0 /\ x[2] \div x[1] < 1000000]
WvTransUntested == [a \in Rat, b \in Rat, x \in Rat |->
    Exp[Mul[Neg[a], Pow[x, b]]]]
WvTrans == [a \in Rat, b \in Rat, x \in Rat |->
    IF AboveMicro[x] THEN Exp[Mul[Neg[a], Pow[x, b]]] ELSE I[1]]
\* comptg on the band's coefficients: [tgoz, tgwv, tgwvhalf, tgog]
GasTrans == [oza \in Rat, wva \in Rat, wvb \in Rat, oga1 \in Rat, ogb0 \in Rat,
             ogb1 \in Rat, m \in Rat, uoz \in Rat, uwv \in Rat, atm_pres \in Rat |->
    [tgoz |-> Exp[Mul[Mul[oza, m], uoz]],
     tgwv |-> WvTrans[wva, wvb, Mul[m, uwv]],
     tgwvhalf |-> WvTrans[wva, wvb, Mul[Mul[m, uwv], Q[1, 2]]],
     tgog |-> Exp[Mul[Neg[Mul[oga1, atm_pres]],
                      Pow[m, Exp[Neg[Add[ogb0, Mul[ogb1, atm_pres]]]]]]]]]
comptg(E, iband, xmus, xmuv, uoz, uwv, atm_pres) ==
    GasTrans[Tb(E, "oztransa", iband), Tb(E, "wvtransa", iband),
             Tb(E, "wvtransb", iband), Tb(E, "ogtransa1", iband),
             Tb(E, "ogtransb0", iband), Tb(E, "ogtransb1", iband),
             Add[Div[I[1], xmus], Div[I[1], xmuv]], uoz, uwv, atm_pres]

\* local_chand: the constants, to four decimals
xfd == Q[9587, 10000]
as0 == [i \in 0..9 |-> Q[<<3324, -678, 1629, 16, -3092, -124, -1032, 324, 1149,
                           -350>>[i + 1], 10000]]
as1 == [i \in 0..1 |-> Q[<<1967, -544>>[i + 1], 10000]]
as2 == [i \in 0..1 |-> Q[<<1455, -291>>[i + 1], 10000]]

\* local_chand: xph1, xph2, xph3
xph == [k \in 1..3, xmus \in Rat, xmuv \in Rat |->
    CASE k = 1 -> Add[I[1], Mul[Mul[Mul[Sub[Mul[I[3], Mul[xmus, xmus]], I[1]],
                                        Sub[Mul[I[3], Mul[xmuv, xmuv]], I[1]]],
                                    xfd], Q[1, 8]]]
      [] k = 2 -> Mul[Mul[Mul[Mul[Neg[xmus], xmuv],
                              Sqrt[Mul[Sub[I[1], Mul[xmus, xmus]],
                                       Sub[I[1], Mul[xmuv, xmuv]]]]],
                          xfd], Q[3, 4]]
      [] k = 3 -> Mul[Mul[Mul[Sub[I[1], Mul[xmus, xmus]],
                              Sub[I[1], Mul[xmuv, xmuv]]], xfd], Q[3, 16]]]
\* local_chand: the first and the second xitm
xitm == [k \in 1..2, xtau \in Rat, xmus \in Rat, xmuv \in Rat |->
    IF k = 1
    THEN Div[Sub[I[1], Exp[Mul[Neg[xtau], Add[Div[I[1], xmus], Div[I[1], xmuv]]]]],
             Mul[I[4], Add[xmus, xmuv]]]
    ELSE Mul[Sub[I[1], Exp[Div[Neg[xtau], xmus]]],
             Sub[I[1], Exp[Div[Neg[xtau], xmuv]]]]]
\* local_chand: pl[i]
pl == [i \in 0..9, xlntau \in Rat, xmus \in Rat, xmuv \in Rat |->
    CASE i = 0 -> I[1]
      [] i = 1 -> xlntau
      [] i = 2 -> Add[xmus, xmuv]
      [] i = 3 -> Mul[xlntau, Add[xmus, xmuv]]
      [] i = 4 -> Mul[xmus, xmuv]
      [] i = 5 -> Mul[xlntau, Mul[xmus, xmuv]]
      [] i = 6 -> Add[Mul[xmus, xmus], Mul[xmuv, xmuv]]
      [] i = 7 -> Mul[xlntau, Add[Mul[xmus, xmus], Mul[xmuv, xmuv]]]
      [] i = 8 -> Mul[Mul[xmus, xmus], Mul[xmuv, xmuv]]
      [] i = 9 -> Mul[xlntau, Mul[Mul[xmus, xmus], Mul[xmuv, xmuv]]]]
\* local_chand: fs0 after the loop has run i = 0 .. n
fs0[n \in -1..9, xlntau \in Rat, xmus \in Rat, xmuv \in Rat] ==
    IF n < 0 THEN I[0]
    ELSE Add[fs0[n - 1, xlntau, xmus, xmuv], Mul[pl[n, xlntau, xmus, xmuv], as0[n]]]
\* local_chand: fs0, fs1, fs2
fs == [k \in 1..3, xlntau \in Rat, xmus \in Rat, xmuv \in Rat |->
    CASE k = 1 -> fs0[9, xlntau, xmus, xmuv]
      [] k = 2 -> Add[Mul[I[1], as1[0]], Mul[xlntau, as1[1]]]
      [] k = 3 -> Add[Mul[I[1], as2[0]], Mul[xlntau, as2[1]]]]
\* local_chand: xitot1, xitot2, xitot3
xitot == [k \in 1..3, xmuv \in Rat, xmus \in Rat, xtau \in Rat |->
    Add[Mul[xph[k, xmus, xmuv], xitm[1, xtau, xmus, xmuv]],
        Mul[Mul[xph[k, xmus, xmuv], xitm[2, xtau, xmus, xmuv]],
            fs[k, Log[xtau], xmus, xmuv]]]]
\* local_chand: *xrray
local_chand == [xphi \in Rat, xmuv \in Rat, xmus \in Rat, xtau \in Rat |->
    Add[xitot[1, xmuv, xmus, xtau],
        Mul[I[2], Add[Mul[xitot[2, xmuv, xmus, xtau], Neg[CosDeg[xphi]]],
                      Mul[xitot[3, xmuv, xmus, xtau],
                          CosDeg[Mul[I[2], xphi]]]]]]]

\* atmcorlamb2_new: the AOT modified by the angstrom coefficient
NewModifiedAot == [sat \in Sats, raot550nm \in Rat, iband \in Nat,
                   normext_ib_0_3 \in Rat, eps \in Rat |->
    IF Lt[eps, I[0]] \/ iband > MaxBandIndx[sat] THEN raot550nm
    ELSE Mul[Div[raot550nm, normext_ib_0_3],
             Pow[Mul[Q[(IF IsLandsat[sat] THEN landsat_lambda
                        ELSE sentinel_lambda)[iband + 1], 1000], lambda_sf],
                 Neg[eps]]]]
\* no limit on the modified AOT
UpperLimitOff == [mraot550nm \in Rat, roatm_upper \in Rat |-> mraot550nm]

\* atmcorlamb2_new: the modified AOT limited to the fit's upper bound
UpperLimit == [mraot550nm \in Rat, roatm_upper \in Rat |->
    IF Ge[mraot550nm, roatm_upper] THEN roatm_upper ELSE mraot550nm]

\* the coefficients taken in ascending order
PolyFitAscending == [coef \in [0..3 -> Rat], a \in Rat |->
    Add[Add[Add[coef[0], Mul[coef[1], a]], Mul[coef[2], Mul[a, a]]],
        Mul[coef[3], Mul[Mul[a, a], a]]]]

\* atmcorlamb2_new: coef[3] + coef[2] a + coef[1] a^2 + coef[0] a^3 with
\* a^2 = a * a and a^3 = a^2 * a (coef is indexed 0..3)
PolyFit == [coef \in [0..3 -> Rat], a \in Rat |->
    Add[Add[Add[coef[3], Mul[coef[2], a]], Mul[coef[1], Mul[a, a]]],
        Mul[coef[0], Mul[Mul[a, a], a]]]]

\* atmcorlamb2_new: the inversion
NewInversion == [tgo \in Rat, roatm \in Rat, ttatmg \in Rat, satm \in Rat,
                 rotoa \in Rat |->
    Div[Sub[rotoa, Mul[tgo, roatm]],
        Add[Mul[tgo, ttatmg], Mul[satm, Sub[rotoa, Mul[tgo, roatm]]]]]]

\* atmcorlamb2_new: the AOT the fits are evaluated at
NewAot == [sat \in Sats, roatm_upper \in Rat, raot550nm \in Rat, iband \in Nat,
           normext_ib_0_3 \in Rat, eps \in Rat |->
    UpperLimit[NewModifiedAot[sat, raot550nm, iband, normext_ib_0_3, eps],
               roatm_upper]]

\* atmcorlamb2_new: *roslamb
atmcorlamb2_new == [sat \in Sats, tgo \in Rat, roatm_upper \in Rat,
                    roatm_coef \in [0..3 -> Rat], ttatmg_coef \in [0..3 -> Rat],
                    satm_coef \in [0..3 -> Rat], raot550nm \in Rat, iband \in Nat,
                    normext_ib_0_3 \in Rat, rotoa \in Rat, eps \in Rat |->
    NewInversion[tgo,
        PolyFit[roatm_coef,
                NewAot[sat, roatm_upper, raot550nm, iband, normext_ib_0_3, eps]],
        PolyFit[ttatmg_coef,
                NewAot[sat, roatm_upper, raot550nm, iband, normext_ib_0_3, eps]],
        PolyFit[satm_coef,
                NewAot[sat, roatm_upper, raot550nm, iband, normext_ib_0_3, eps]],
        rotoa]]

\* atmcorlamb2: the final inversion, [tgo, roatm, ttatmg, roslamb]
TgoOf == [tg \in [tgoz : Rat, tgwv : Rat, tgwvhalf : Rat, tgog : Rat] |->
    Mul[tg.tgog, tg.tgoz]]
\* the water-vapour correction applied to the whole reflectance
RoatmOfWhole == [roatm_lut \in Rat, xrorayp \in Rat, tgwvhalf \in Rat |->
    Mul[roatm_lut, tgwvhalf]]
RoatmOf == [roatm_lut \in Rat, xrorayp \in Rat, tgwvhalf \in Rat |->
    Add[Mul[Sub[roatm_lut, xrorayp], tgwvhalf], xrorayp]]
\* an inversion that skips the division when the denominator is zero
LambertGuarded == [r \in Rat, ttatmg \in Rat, satm \in Rat |->
    IF Add[ttatmg, Mul[satm, r]] = I[0] THEN r
    ELSE Div[r, Add[ttatmg, Mul[satm, r]]]]
\* roslamb = r / (ttatmg + satm r)
Lambert == [r \in Rat, ttatmg \in Rat, satm \in Rat |->
    Div[r, Add[ttatmg, Mul[satm, r]]]]
Inversion == [rotoa \in Rat, roatm_lut \in Rat, xrorayp \in Rat, satm \in Rat,
              xtts \in Rat, xttv \in Rat,
              tg \in [tgoz : Rat, tgwv : Rat, tgwvhalf : Rat, tgog : Rat] |->
    [tgo |-> TgoOf[tg],
     roatm |-> RoatmOf[roatm_lut, xrorayp, tg.tgwvhalf],
     ttatmg |-> Mul[Mul[xtts, xttv], tg.tgwv],
     roslamb |-> Lambert[Sub[Div[rotoa, TgoOf[tg]],
                             RoatmOf[roatm_lut, xrorayp, tg.tgwvhalf]],
                         Mul[Mul[xtts, xttv], tg.tgwv], satm]]]

(***************************************************************************)
(* The pipeline: workers call the engine, one call per pixel and band      *)
(***************************************************************************)
\* workers of the concurrent pipeline, and memory images a call may run in
NPar == 2
NJunk == 3

ONE_DIV_ATMOS_PRES_0 == Q[1, 1013]

\* (xmus, xmuv, xfi, cosxfi) of the geometries the pipeline resolves
Geos == <<[xmus |-> I[1], xmuv |-> I[1], xfi |-> I[0], cosxfi |-> I[1]],
          [xmus |-> Q[4, 5], xmuv |-> Q[3, 5], xfi |-> I[180], cosxfi |-> I[-1]],
          [xmus |-> Q[3, 5], xmuv |-> Q[4, 5], xfi |-> I[90], cosxfi |-> I[0]]>>

\* the polynomial-fit coefficients the pipeline holds for a band
\* (each indexed 0..3)
RoatmCoef(iband) == [k \in 0..3 |-> Q[<<1, -2, 3, 1>>[k + 1] + (iband % 2), 10]]
TtatmgCoef(iband) == [k \in 0..3 |-> Q[<<0, 1, -3, 9>>[k + 1], 10]]
SatmCoef(iband) == [k \in 0..3 |-> Q[<<0, -1, 2, 1>>[k + 1], 10]]

BasePixel ==
    [sat |-> "SAT_LANDSAT_8", xts |-> I[38], xtv |-> I[5], geo |-> 1,
     raot550nm |-> Q[7, 100], iband |-> 0, pres |-> I[950], uoz |-> Q[3, 10],
     uwv |-> I[1], rotoa |-> Q[1, 5], eps |-> I[-1], junk |-> 0,
     tgo |-> Q[9, 10], roatm_upper |-> Q[1, 2]]

XtsVals == {I[0], I[38], I[79], I[80], I[85]}
XtvVals == {I[0], I[5], I[70], I[85]}
PresVals == {TpresTab[k] : k \in 0..(NPRES_VALS - 1)} \cup {I[950], I[1100], I[400]}
AotVals == {Q[5, 100], Q[7, 100], I[2], I[6], Q[1, 200]}
EpsVals == {I[-1], I[0], I[1]}
BandsOf(sat) == IF IsLandsat[sat] THEN {0, 6, 7} ELSE {0, 10}

\* pixels that vary the angles, the geometry and the memory image
AnglePixels ==
    {[BasePixel EXCEPT !.xts = a, !.xtv = v, !.junk = m, !.geo = g] :
        a \in XtsVals, v \in XtvVals, m \in 0..(NJunk - 1), g \in {1, 2}}
\* pixels that vary pressure, AOT and band
GridPixels ==
    {[BasePixel EXCEPT !.pres = p, !.raot550nm = a, !.iband = b] :
        p \in PresVals, a \in AotVals, b \in {0, 7}}
\* pixels that vary the sensor, the band, the AOT and the angstrom coefficient
EpsPixels ==
    UNION {{[BasePixel EXCEPT !.sat = st, !.raot550nm = a, !.iband = b, !.eps = e,
                              !.roatm_upper = ub] :
               a \in AotVals, b \in BandsOf(st), e \in EpsVals, ub \in {Q[1, 2], I[5]}} :
           st \in {"SAT_LANDSAT_8", "SAT_SENTINEL_2"}}
\* pixels that vary the gas columns, the geometry and the reflectance
GasPixels ==
    {[BasePixel EXCEPT !.sat = "SAT_LANDSAT_9", !.uwv = wv, !.uoz = oz, !.geo = g,
                       !.iband = b, !.rotoa = r] :
        wv \in {I[0], I[1], I[3]}, oz \in {I[0], Q[3, 10]}, g \in {1, 2, 3},
        b \in {0, 1}, r \in {Q[1, 5], I[0]}}
Pixels == {p \in AnglePixels \cup GridPixels \cup EpsPixels \cup GasPixels :
              p.roatm_upper = BasePixel.roatm_upper}
          \cup {[BasePixel EXCEPT !.raot550nm = Q[5, 100], !.pres = I[1050],
                                  !.xts = I[10], !.geo = 2],
                 [BasePixel EXCEPT !.uwv = I[-1], !.geo = 2],
                 [BasePixel EXCEPT !.pres = I[0]],
                 [BasePixel EXCEPT !.xts = I[20], !.xtv = Q[347, 25], !.geo = 2],
                 [BasePixel EXCEPT !.xts = I[20], !.xtv = Q[71, 25], !.geo = 2],
                 [BasePixel EXCEPT !.raot550nm = Q[1, 100], !.pres = I[1050]],
                 [BasePixel EXCEPT !.raot550nm = I[5], !.pres = I[500]]}

\* pixels of the coefficient-fit solver
NewPixels == EpsPixels \cup {p \in GasPixels : p.uwv = I[1] /\ p.geo = 1}

\* the calls the concurrent pipeline shares out, <<function, pixel>>:
\* worker w takes every NPar-th one
ParCalls ==
    <<<<"atmcorlamb2", [BasePixel EXCEPT !.pres = I[900], !.geo = 2]>>,
      <<"atmcorlamb2", [BasePixel EXCEPT !.xts = I[79], !.raot550nm = I[2],
                                         !.iband = 7, !.eps = I[1]]>>,
      <<"atmcorlamb2", [BasePixel EXCEPT !.xtv = I[85], !.junk = 1,
                                         !.pres = I[1013], !.raot550nm = I[2],
                                         !.eps = I[1]]>>,
      <<"atmcorlamb2_new", BasePixel>>>>

\* the calls worker w of a pipeline makes
CallsOf(feed, w) ==
    IF feed = "scene"
    THEN {<<"atmcorlamb2", p>> : p \in Pixels}
         \cup {<<"atmcorlamb2_new", p>> : p \in NewPixels}
    ELSE {ParCalls[i] : i \in {j \in 1..Len(ParCalls) : j % NPar = w % NPar}}

VARIABLES
    lut,    \* the look-up-table store
    feed,   \* which pixels the pipeline feeds: "scene" or "pair"
    pc,     \* pc[w]: where worker w is in its call
    fn,     \* fn[w]: the function worker w called
    pix,    \* pix[w]: the inputs of the call
    loc,    \* loc[f]: the automatic variables of call frame f
    out,    \* out[w]: the caller's variables the output pointers name
    ret,    \* ret[w]: the return value
    errs    \* errs[w]: the functions that invoked error_handler in the call
vars == <<lut, feed, pc, fn, pix, loc, out, ret, errs>>

NoOut == [roslamb |-> Unset, tgo |-> Unset, roatm |-> Unset, ttatmg |-> Unset,
          satm |-> Unset, xrorayp |-> Unset]

\* the automatic variables of atmcorlamb2 on entry: none is initialised, so
\* the floats hold whatever the memory image holds
FreshLocals(junk) ==
    [mraot550nm |-> Junk[junk, 1], ip1 |-> 0, ip2 |-> 0, iaot1 |-> 0, iaot2 |-> 0,
     its |-> 0, itv |-> 0, xtts |-> Junk[junk, 2], xttv |-> Junk[junk, 3],
     roatm_lut |-> Unset, atm_pres |-> Junk[junk, 4],
     tg |-> [tgoz |-> Junk[junk, 5], tgwv |-> Junk[junk, 6],
             tgwvhalf |-> Junk[junk, 7], tgog |-> Junk[junk, 8]]]

\* automatic variables declared static: one frame for every worker
StaticFrame(w) == 1

\* the frame holding worker w's automatic variables: its own
Frame(w) == w

\* comptrans using the last column of the transmission table as scratch
ScratchStores(f) ==
    IF f = "comptrans"
    THEN {[name |-> "transt", i |-> NSUNANGLE_VALS - 1, val |-> I[1]]}
    ELSE {}

\* the elements of the tables a function stores to: none
TableStores(f) == {}

\* the store after the element stores S = {[name, i, val], ...}
Commit(T, S) ==
    IF S = {} THEN T
    ELSE [T EXCEPT !.over =
            [k \in (DOMAIN T.over) \cup {<<r.name, r.i>> : r \in S} |->
               IF \E r \in S : <<r.name, r.i>> = k
               THEN (CHOOSE r \in S : <<r.name, r.i>> = k).val
               ELSE T.over[k]]]

Env(w) == [T |-> lut, sat |-> pix[w].sat, junk |-> pix[w].junk]
Geo(w) == Geos[pix[w].geo]
L(w) == loc[Frame(w)]

Workers == DOMAIN pc
Alive == \A w \in Workers : pc[w] # "crashed"

InitWith(f, n) ==
    /\ lut \in {[kind |-> k, over |-> <<>>] : k \in IF f = "scene" THEN Kinds ELSE {"full"}}
    /\ feed = f
    /\ pc = [w \in 1..n |-> "idle"]
    /\ fn = [w \in 1..n |-> "none"]
    /\ pix = [w \in 1..n |-> BasePixel]
    /\ loc = [w \in 1..n |-> FreshLocals(0)]
    /\ out = [w \in 1..n |-> NoOut]
    /\ ret = [w \in 1..n |-> "none"]
    /\ errs = [w \in 1..n |-> {}]

Init == InitWith("scene", 1)
InitPar == InitWith("pair", NPar)

\* a step of worker w's call: the function f it runs, its new position and
\* what it leaves in the frame, the outputs, the return value and the errors
Step(w, f, newpc, newloc, newout, newret, newerrs) ==
    /\ Alive
    /\ pc' = [pc EXCEPT ![w] = newpc]
    /\ loc' = [loc EXCEPT ![Frame(w)] = newloc]
    /\ out' = [out EXCEPT ![w] = newout]
    /\ ret' = [ret EXCEPT ![w] = newret]
    /\ errs' = [errs EXCEPT ![w] = newerrs]
    /\ lut' = Commit(lut, TableStores(f))
    /\ UNCHANGED <<feed, fn, pix>>

\* the pipeline calls the engine for a pixel
Call(w) ==
    /\ Alive
    /\ pc[w] = "idle"
    /\ \E c \in CallsOf(feed, w) :
         /\ fn' = [fn EXCEPT ![w] = c[1]]
         /\ pix' = [pix EXCEPT ![w] = c[2]]
         /\ pc' = [pc EXCEPT ![w] = IF c[1] = "atmcorlamb2" THEN "aot" ELSE "new"]
         /\ loc' = [loc EXCEPT ![Frame(w)] = FreshLocals(c[2].junk)]
    /\ out' = [out EXCEPT ![w] = NoOut]
    /\ ret' = [ret EXCEPT ![w] = "none"]
    /\ errs' = [errs EXCEPT ![w] = {}]
    /\ UNCHANGED <<lut, feed>>

\* atmcorlamb2, lines 245-254
ModifyAot(w) ==
    /\ pc[w] = "aot"
    /\ Step(w, "atmcorlamb2", "index",
            [L(w) EXCEPT !.mraot550nm =
                ModifiedAot(Env(w), pix[w].raot550nm, pix[w].iband, pix[w].eps)],
            out[w], ret[w], errs[w])

\* atmcorlamb2, lines 256-290
Indices(w) ==
    /\ pc[w] = "index"
    /\ LET ip1 == PresIndex(Env(w), pix[w].pres)
           iaot1 == AotIndex(Env(w), L(w).mraot550nm)
       IN Step(w, "atmcorlamb2", "check",
               [L(w) EXCEPT !.ip1 = ip1, !.ip2 = ip1 + 1,
                            !.iaot1 = iaot1, !.iaot2 = iaot1 + 1,
                            !.itv = ViewIndex[pix[w].xtv, XTVMIN, XTVSTEP],
                            !.its = SunIndex[pix[w].xts, XTSMIN, XTSSTEP]],
               out[w], ret[w], errs[w])

\* a range check that lets the index 20 through
RangeCheckLax(w) ==
    /\ pc[w] = "check"
    /\ IF L(w).its > 20
       THEN Step(w, "atmcorlamb2", "done", L(w), out[w], ERROR,
                 errs[w] \cup {"atmcorlamb2"})
       ELSE Step(w, "atmcorlamb2", "roatm", L(w), out[w], ret[w], errs[w])

\* a range check that clears the reflectance output on failure
RangeCheckClearing(w) ==
    /\ pc[w] = "check"
    /\ IF L(w).its > 19
       THEN Step(w, "atmcorlamb2", "done", L(w), [out[w] EXCEPT !.roslamb = I[0]],
                 ERROR, errs[w] \cup {"atmcorlamb2"})
       ELSE Step(w, "atmcorlamb2", "roatm", L(w), out[w], ret[w], errs[w])

\* atmcorlamb2, lines 291-296
RangeCheck(w) ==
    /\ pc[w] = "check"
    /\ IF L(w).its > 19
       THEN Step(w, "atmcorlamb2", "done", L(w), out[w], ERROR,
                 errs[w] \cup {"atmcorlamb2"})
       ELSE Step(w, "atmcorlamb2", "roatm", L(w), out[w], ret[w], errs[w])

\* atmcorlamb2, lines 299-301
Comproatm(w) ==
    /\ pc[w] = "roatm"
    /\ LET l == L(w)
           g == Geo(w)
           v == comproatm(Env(w), l.ip1, l.ip2, l.iaot1, l.iaot2, pix[w].xts,
                          pix[w].xtv, g.xmus, g.xmuv, g.cosxfi, l.mraot550nm,
                          pix[w].iband, pix[w].pres, l.its, l.itv)
       IN Step(w, "comproatm", "transs", [l EXCEPT !.roatm_lut = v],
               [out[w] EXCEPT !.roatm = v], ret[w], errs[w])

\* comproatm reading beyond the scattering-geometry tables: the process may
\* as well be killed by the fault
Fault(w) ==
    /\ Alive
    /\ pc[w] = "roatm"
    /\ ~(0 <= L(w).itv /\ L(w).itv + 1 < NVIEW_ZEN_VALS)
    /\ pc' = [pc EXCEPT ![w] = "crashed"]
    /\ UNCHANGED <<lut, feed, fn, pix, loc, out, ret, errs>>

\* one comptrans call of atmcorlamb2: its result goes to the local named
\* field, which keeps its content when comptrans returns early
CompTrans(w, angle, step, min, field, newpc) ==
    LET l == L(w)
        r == comptrans(Env(w), l.ip1, l.ip2, l.iaot1, l.iaot2, angle,
                       l.mraot550nm, pix[w].iband, pix[w].pres, step, min)
    IN Step(w, "comptrans", newpc,
            IF r.err THEN l ELSE [l EXCEPT ![field] = r.val],
            out[w], ret[w],
            IF r.err THEN errs[w] \cup {"comptrans"} ELSE errs[w])

\* atmcorlamb2, lines 303-305
ComptransSolar(w) ==
    /\ pc[w] = "transs"
    /\ CompTrans(w, pix[w].xts, XTSSTEP, XTSMIN, "xtts", "transv")

\* atmcorlamb2, lines 307-309
ComptransView(w) ==
    /\ pc[w] = "transv"
    /\ CompTrans(w, pix[w].xtv, XTVSTEP, XTVMIN, "xttv", "salb")

\* atmcorlamb2, lines 314-316
Compsalb(w) ==
    /\ pc[w] = "salb"
    /\ LET l == L(w)
       IN Step(w, "compsalb", "tg", l,
               [out[w] EXCEPT !.satm =
                   compsalb(Env(w), l.ip1, l.ip2, l.iaot1, l.iaot2, l.mraot550nm,
                            pix[w].iband, pix[w].pres)],
               ret[w], errs[w])

\* atmcorlamb2, lines 318-322
Comptg(w) ==
    /\ pc[w] = "tg"
    /\ LET atm_pres == Mul[pix[w].pres, ONE_DIV_ATMOS_PRES_0]
       IN Step(w, "comptg", "chand",
               [L(w) EXCEPT !.atm_pres = atm_pres,
                            !.tg = comptg(Env(w), pix[w].iband, Geo(w).xmus,
                                          Geo(w).xmuv, pix[w].uoz, pix[w].uwv,
                                          atm_pres)],
               out[w], ret[w], errs[w])

\* atmcorlamb2, lines 324-327
LocalChand(w) ==
    /\ pc[w] = "chand"
    /\ LET xtaur == Mul[Tb(Env(w), "tauray", pix[w].iband), L(w).atm_pres]
       IN Step(w, "local_chand", "invert", L(w),
               [out[w] EXCEPT !.xrorayp =
                   local_chand[Geo(w).xfi, Geo(w).xmuv, Geo(w).xmus, xtaur]],
               ret[w], errs[w])

\* atmcorlamb2, lines 329-338
Invert(w) ==
    /\ pc[w] = "invert"
    /\ LET l == L(w)
           v == Inversion[pix[w].rotoa, out[w].roatm, out[w].xrorayp,
                          out[w].satm, l.xtts, l.xttv, l.tg]
       IN Step(w, "atmcorlamb2", "done", l,
               [out[w] EXCEPT !.tgo = v.tgo, !.roatm = v.roatm,
                              !.ttatmg = v.ttatmg, !.roslamb = v.roslamb],
               SUCCESS, errs[w])

\* the caller's normext[iband][0][3]
NormextCorner(E, iband) == Tb(E, "normext", iband * NPRES_VALS * NAOT_VALS + 3)

\* atmcorlamb2_new, the whole call
AtmcorlambNew(w) ==
    /\ pc[w] = "new"
    /\ LET p == pix[w]
       IN Step(w, "atmcorlamb2_new", "done",
               [L(w) EXCEPT !.mraot550nm =
                   NewAot[p.sat, p.roatm_upper, p.raot550nm, p.iband,
                          NormextCorner(Env(w), p.iband), p.eps]],
               [out[w] EXCEPT !.roslamb =
                   atmcorlamb2_new[p.sat, p.tgo, p.roatm_upper, RoatmCoef(p.iband),
                                   TtatmgCoef(p.iband), SatmCoef(p.iband),
                                   p.raot550nm, p.iband,
                                   NormextCorner(Env(w), p.iband), p.rotoa, p.eps]],
               "void", errs[w])

\* the caller takes the results and the worker is free again
Return(w) ==
    /\ Alive
    /\ pc[w] = "done"
    /\ pc' = [pc EXCEPT ![w] = "idle"]
    /\ fn' = [fn EXCEPT ![w] = "none"]
    /\ pix' = [pix EXCEPT ![w] = BasePixel]
    /\ loc' = [loc EXCEPT ![Frame(w)] = FreshLocals(0)]
    /\ out' = [out EXCEPT ![w] = NoOut]
    /\ ret' = [ret EXCEPT ![w] = "none"]
    /\ errs' = [errs EXCEPT ![w] = {}]
    /\ UNCHANGED <<lut, feed>>

Next ==
    \/ \E w \in Workers : Call(w)
    \/ \E w \in Workers : ModifyAot(w)
    \/ \E w \in Workers : Indices(w)
    \/ \E w \in Workers : RangeCheck(w)
    \/ \E w \in Workers : Comproatm(w)
    \/ \E w \in Workers : Fault(w)
    \/ \E w \in Workers : ComptransSolar(w)
    \/ \E w \in Workers : ComptransView(w)
    \/ \E w \in Workers : Compsalb(w)
    \/ \E w \in Workers : Comptg(w)
    \/ \E w \in Workers : LocalChand(w)
    \/ \E w \in Workers : Invert(w)
    \/ \E w \in Workers : AtmcorlambNew(w)
    \/ \E w \in Workers : Return(w)

Spec == Init /\ [][Next]_vars
SpecPar == InitPar /\ [][Next]_vars

(***************************************************************************)
(* Properties                                                              *)
(***************************************************************************)
\* worker w's call of function f has returned
Returned(w, f) == pc[w] = "done" /\ fn[w] = f

\* worker w is in atmcorlamb2, past the step that leaves it at position p
Past(w, p) ==
    /\ fn[w] = "atmcorlamb2"
    /\ pc[w] \in (CASE p = "aot" -> {"index", "check", "roatm", "transs", "transv",
                                      "salb", "tg", "chand", "invert", "done"}
                    [] p = "index" -> {"check", "roatm", "transs", "transv", "salb",
                                       "tg", "chand", "invert", "done"}
                    [] p = "salb" -> {"tg", "chand", "invert", "done"})

\* the view zenith angle lies within the view-angle table
ViewInTable(p) ==
    /\ ViewIndex[p.xtv, XTVMIN, XTVSTEP] + 1 < NVIEW_ZEN_VALS
    /\ SunIndex[p.xtv, XTVMIN, XTVSTEP] <= 19

\* C1: whenever atmcorlamb2 returns, it returns ERROR if the solar zenith
\* angle is above xtsmin and floor((xts - xtsmin) / xtsstep) is above 19, and
\* SUCCESS for every other input; the tables have xtsmin = 0 and xtsstep = 4,
\* and a solar zenith of 85 degrees returns ERROR
C1_ErrorExactlyOnSolarRange ==
    /\ XTSMIN = I[0] /\ XTSSTEP = I[4]
    /\ \A w \in Workers :
         Returned(w, "atmcorlamb2") =>
            /\ ret[w] = IF /\ Gt[pix[w].xts, XTSMIN]
                           /\ Trunc[Div[Sub[pix[w].xts, XTSMIN], XTSSTEP]] > 19
                        THEN ERROR ELSE SUCCESS
            /\ pix[w].xts = I[85] => ret[w] = ERROR
C1_Witness ==
    \E w \in Workers :
        Returned(w, "atmcorlamb2") /\ pix[w].xts = I[85] /\ ret[w] = ERROR

\* C2: no call of atmcorlamb2 invokes the error handler, in atmcorlamb2 or in
\* a composer it calls, and then returns SUCCESS
C2_ErrorsSurface ==
    \A w \in Workers :
        (Returned(w, "atmcorlamb2") /\ errs[w] # {}) => ret[w] = ERROR

\* the result of atmcorlamb2 run alone for pixel p over the tables T
SoloAtmcorlamb2(T, p) ==
    LET E == [T |-> T, sat |-> p.sat, junk |-> p.junk]
        l == FreshLocals(p.junk)
        g == Geos[p.geo]
        m == ModifiedAot(E, p.raot550nm, p.iband, p.eps)
        ip1 == PresIndex(E, p.pres)
        iaot1 == AotIndex(E, m)
        itv == ViewIndex[p.xtv, XTVMIN, XTVSTEP]
        its == SunIndex[p.xts, XTSMIN, XTSSTEP]
        roatm == comproatm(E, ip1, ip1 + 1, iaot1, iaot1 + 1, p.xts, p.xtv, g.xmus,
                           g.xmuv, g.cosxfi, m, p.iband, p.pres, its, itv)
        ts == comptrans(E, ip1, ip1 + 1, iaot1, iaot1 + 1, p.xts, m, p.iband,
                        p.pres, XTSSTEP, XTSMIN)
        tv == comptrans(E, ip1, ip1 + 1, iaot1, iaot1 + 1, p.xtv, m, p.iband,
                        p.pres, XTVSTEP, XTVMIN)
        satm == compsalb(E, ip1, ip1 + 1, iaot1, iaot1 + 1, m, p.iband, p.pres)
        atm_pres == Mul[p.pres, ONE_DIV_ATMOS_PRES_0]
        tg == comptg(E, p.iband, g.xmus, g.xmuv, p.uoz, p.uwv, atm_pres)
        xrorayp == local_chand[g.xfi, g.xmuv, g.xmus,
                               Mul[Tb(E, "tauray", p.iband), atm_pres]]
        v == Inversion[p.rotoa, roatm, xrorayp, satm,
                       IF ts.err THEN l.xtts ELSE ts.val,
                       IF tv.err THEN l.xttv ELSE tv.val, tg]
    IN IF its > 19 THEN [ret |-> ERROR, out |-> NoOut]
       ELSE [ret |-> SUCCESS,
             out |-> [roslamb |-> v.roslamb, tgo |-> v.tgo, roatm |-> v.roatm,
                      ttatmg |-> v.ttatmg, satm |-> satm, xrorayp |-> xrorayp]]

\* the result of atmcorlamb2_new run alone for pixel p, the caller holding
\* the tables T
SoloAtmcorlamb2New(T, p) ==
    [ret |-> "void",
     out |-> [NoOut EXCEPT !.roslamb =
                atmcorlamb2_new[p.sat, p.tgo, p.roatm_upper, RoatmCoef(p.iband),
                                TtatmgCoef(p.iband), SatmCoef(p.iband), p.raot550nm,
                                p.iband,
                                NormextCorner([T |-> T, sat |-> p.sat,
                                               junk |-> p.junk], p.iband),
                                p.rotoa, p.eps]]]

\* C3: under any interleaving of concurrent calls over the same fully built,
\* unmodified tables, the return value and the outputs of each call that
\* returns are those of the same call run alone over these tables
C3_ConcurrentAsAlone ==
    \A w \in Workers :
        pc[w] = "done" =>
            /\ lut = [kind |-> "full", over |-> <<>>]
            /\ [ret |-> ret[w], out |-> out[w]] =
                  IF fn[w] = "atmcorlamb2" THEN SoloAtmcorlamb2(lut, pix[w])
                  ELSE SoloAtmcorlamb2New(lut, pix[w])
C3_Witness ==
    \E w, x \in Workers :
        /\ w # x
        /\ Returned(w, "atmcorlamb2") /\ ret[w] = SUCCESS
        /\ fn[x] = "atmcorlamb2" /\ pc[x] \in {"transs", "transv", "salb", "tg"}
        /\ pix[w] # pix[x]

\* C4: no step of any engine operation changes an element of a table
C4_TablesUnchanged == [][lut' = lut]_vars
C4_Witness ==
    /\ lut.over = <<>>
    /\ \E w \in Workers :
         Returned(w, "atmcorlamb2") /\ ret[w] = ERROR /\ pix[w].xts = I[80]

\* C5: on every SUCCESS return of atmcorlamb2, tgo = tgog * tgoz, roatm =
\* (roatm_lut - rorayp) * tgwvhalf + rorayp, ttatmg = xtts * xttv * tgwv and
\* roslamb = r / (ttatmg + satm * r) with r = rotoa / tgo - roatm; xtts and
\* xttv are what comptrans computed for the solar and the view zenith angle
\* whenever it reported no error
C5_Composition ==
    \A w \in Workers :
        (Returned(w, "atmcorlamb2") /\ ret[w] = SUCCESS) =>
            LET l == L(w)
                o == out[w]
                r == Sub[Div[pix[w].rotoa, o.tgo], o.roatm]
            IN /\ o.tgo = Mul[l.tg.tgog, l.tg.tgoz]
               /\ o.roatm = Add[Mul[Sub[l.roatm_lut, o.xrorayp], l.tg.tgwvhalf],
                                o.xrorayp]
               /\ o.ttatmg = Mul[Mul[l.xtts, l.xttv], l.tg.tgwv]
               /\ o.roslamb = Div[r, Add[o.ttatmg, Mul[o.satm, r]]]
               /\ errs[w] = {} =>
                    /\ l.xtts = comptrans(Env(w), l.ip1, l.ip2, l.iaot1, l.iaot2,
                                          pix[w].xts, l.mraot550nm, pix[w].iband,
                                          pix[w].pres, XTSSTEP, XTSMIN).val
                    /\ l.xttv = comptrans(Env(w), l.ip1, l.ip2, l.iaot1, l.iaot2,
                                          pix[w].xtv, l.mraot550nm, pix[w].iband,
                                          pix[w].pres, XTVSTEP, XTVMIN).val
C5_Witness ==
    \E w \in Workers :
        /\ Returned(w, "atmcorlamb2") /\ ret[w] = SUCCESS /\ errs[w] = {}
        /\ lut.kind = "full"
        /\ IsNum[out[w].roslamb] /\ out[w].roslamb # I[0]
        /\ out[w].roatm # L(w).roatm_lut

\* C6 as stated: with all-zero reflectance, transmission and albedo tables a
\* successful atmcorlamb2 call yields roslamb = rotoa / tgo
C6_ZeroTablesGiveRotoaOverTgo ==
    \A w \in Workers :
        (Returned(w, "atmcorlamb2") /\ ret[w] = SUCCESS /\ lut.kind = "zero"
         /\ ViewInTable(pix[w])) =>
            out[w].roslamb = Div[pix[w].rotoa, out[w].tgo]
\* C6: with all-zero reflectance, transmission and albedo tables a successful
\* atmcorlamb2 call over a view angle within the table has, when its AOT is
\* a finite number, satm = 0 and ttatmg = 0; the inversion divides by
\* ttatmg + satm * r = 0 and roslamb is never a finite number
C6_ZeroTablesDivideByZero ==
    \A w \in Workers :
        (Returned(w, "atmcorlamb2") /\ ret[w] = SUCCESS /\ lut.kind = "zero"
         /\ ViewInTable(pix[w])) =>
            /\ ~IsNum[out[w].roslamb]
            /\ IsNum[L(w).mraot550nm] =>
                 /\ out[w].satm = I[0]
                 /\ out[w].ttatmg = I[0]
C6_Witness ==
    \E w \in Workers :
        /\ Returned(w, "atmcorlamb2") /\ ret[w] = SUCCESS /\ lut.kind = "zero"
        /\ ViewInTable(pix[w])
        /\ IsNum[out[w].tgo] /\ out[w].tgo # I[0] /\ pix[w].rotoa # I[0]
        /\ out[w].ttatmg = I[0]

\* C7 as stated: in atmcorlamb2 the AOT used for bracketing and for the
\* interpolation fractions never exceeds the upper bound the caller holds
C7_FullInversionClamps ==
    \A w \in Workers :
        Past(w, "aot") => Le[L(w).mraot550nm, pix[w].roatm_upper]
\* C7: atmcorlamb2 applies no upper bound: the AOT it brackets and hands to
\* the composers is the angstrom-adjusted value itself, (raot550nm / normext)
\* * (lambda * lambda_sf)^(-eps), or raot550nm when eps < 0 or the band is
\* past the last extinction-aware one; the AOT bracket is the last table
\* index below it
C7_FullInversionDoesNotClamp ==
    \A w \in Workers :
        /\ Past(w, "aot") =>
             L(w).mraot550nm =
                IF Lt[pix[w].eps, I[0]] \/ pix[w].iband > MaxBandIndx[pix[w].sat]
                THEN pix[w].raot550nm
                ELSE Mul[Div[pix[w].raot550nm, NormextCorner(Env(w), pix[w].iband)],
                         Pow[Mul[Tb(Env(w), LambdaOf[pix[w].sat], pix[w].iband),
                                 lambda_sf], Neg[pix[w].eps]]]
        /\ Past(w, "index") =>
             /\ L(w).iaot2 = L(w).iaot1 + 1
             /\ \A i \in (L(w).iaot1 + 1)..20 :
                   ~Gt[L(w).mraot550nm, Tb(Env(w), "aot550nm", i)]
             /\ L(w).iaot1 > 0 =>
                   Gt[L(w).mraot550nm, Tb(Env(w), "aot550nm", L(w).iaot1)]
C7_Witness ==
    \E w \in Workers :
        /\ Past(w, "salb")
        /\ IsNum[L(w).mraot550nm]
        /\ Gt[L(w).mraot550nm, pix[w].roatm_upper]
        /\ Gt[L(w).mraot550nm, Tb(Env(w), "aot550nm", NAOT_VALS - 1)]

\* C8 as stated: with a negative angstrom exponent the AOT used downstream
\* equals raot550nm in both solver variants
C8_NegativeEpsKeepsAot ==
    \A w \in Workers :
        (Lt[pix[w].eps, I[0]] /\ (Past(w, "aot") \/ Returned(w, "atmcorlamb2_new")))
            => L(w).mraot550nm = pix[w].raot550nm
\* C8: with a negative angstrom exponent atmcorlamb2 uses raot550nm
\* unchanged, and atmcorlamb2_new uses raot550nm if it is below roatm_upper
\* and roatm_upper otherwise
C8_NegativeEpsKeepsAotUpToLimit ==
    \A w \in Workers :
        Lt[pix[w].eps, I[0]] =>
            /\ Past(w, "aot") => L(w).mraot550nm = pix[w].raot550nm
            /\ Returned(w, "atmcorlamb2_new") =>
                 L(w).mraot550nm =
                    IF Lt[pix[w].raot550nm, pix[w].roatm_upper]
                    THEN pix[w].raot550nm ELSE pix[w].roatm_upper
C8_Witness ==
    \E w \in Workers :
        /\ Returned(w, "atmcorlamb2_new")
        /\ Lt[pix[w].eps, I[0]]
        /\ Gt[pix[w].raot550nm, pix[w].roatm_upper]
        /\ L(w).mraot550nm = pix[w].roatm_upper

\* C9: atmcorlamb2_new computes roatm, ttatmg and satm each as coef[0] a^3 +
\* coef[1] a^2 + coef[2] a + coef[3], a being the angstrom-adjusted AOT
\* limited to roatm_upper, and returns roslamb = r / (tgo * ttatmg + satm * r)
\* with r = rotoa - tgo * roatm; the tables it is not handed do not change
\* what it returns
C9_CoefficientFit ==
    \A w \in Workers :
        Returned(w, "atmcorlamb2_new") =>
            LET p == pix[w]
                a == L(w).mraot550nm
                a2 == Mul[a, a]
                a3 == Mul[a2, a]
                Cubic(c) == Add[Add[Add[c[3], Mul[c[2], a]], Mul[c[1], a2]],
                                Mul[c[0], a3]]
                r == Sub[p.rotoa, Mul[p.tgo, Cubic(RoatmCoef(p.iband))]]
            IN /\ Le[a, p.roatm_upper] \/ ~IsNum[a]
               /\ out[w].roslamb =
                     Div[r, Add[Mul[p.tgo, Cubic(TtatmgCoef(p.iband))],
                                Mul[Cubic(SatmCoef(p.iband)), r]]]
               /\ out[w].roslamb =
                     SoloAtmcorlamb2New([kind |-> "full", over |-> <<>>], p).out.roslamb
C9_Witness ==
    \E w \in Workers :
        /\ Returned(w, "atmcorlamb2_new")
        /\ lut.kind = "zero"
        /\ Ge[pix[w].eps, I[0]]
        /\ Lt[L(w).mraot550nm, pix[w].roatm_upper]
        /\ L(w).mraot550nm # pix[w].raot550nm
        /\ IsNum[out[w].roslamb] /\ out[w].roslamb # I[0]

\* the pressure level k with tpres[k] = pres exactly, or -1
LevelOf(E, pres) ==
    LastOf({k + 1 : k \in {j \in 0..(NPRES_VALS - 1) : Tb(E, "tpres", j) = pres}}) - 1

\* what comproatm, comptrans (solar, view) and compsalb give worker w at the
\* single pressure level ip
AtLevel(w, ip) ==
    LET E == Env(w)
        l == L(w)
        p == pix[w]
    IN <<RoatmAtPres(E, ip, l.iaot1, l.iaot2, l.mraot550nm, p.iband, l.its, l.itv,
                     FourCells(E, "tsmax", l.its, l.itv),
                     FourCells(E, "tsmin", l.its, l.itv),
                     ScatAngle[Geo(w).xmus, Geo(w).xmuv, Geo(w).cosxfi],
                     FourCells(E, "nbfic", l.its, l.itv),
                     FourCells(E, "nbfi", l.its, l.itv),
                     SunParam(E, l.its, p.xts), ViewParam(E, l.its, l.itv, p.xtv)),
         TransAtPres(E, ip, l.iaot1, l.iaot2, l.its, p.xts, l.mraot550nm, p.iband),
         SalbAtPres(E, ip, l.iaot1, l.iaot2, l.mraot550nm, p.iband),
         TransAtPres(E, ip, l.iaot1, l.iaot2, SunIndex[p.xtv, XTVMIN, XTVSTEP],
                     p.xtv, l.mraot550nm, p.iband)>>

\* what the composers left worker w with, in the same order; the last
\* entry counts only when comptrans assigned it
Composed(w) == <<L(w).roatm_lut, L(w).xtts, out[w].satm, L(w).xttv>>
Assigned(w) == 1..(IF "comptrans" \in errs[w] THEN 3 ELSE 4)

\* worker w has the composers behind it and its pressure is a table entry
OnGrid(w) ==
    Past(w, "salb") /\ pc[w] = "tg" /\ LevelOf(Env(w), pix[w].pres) >= 0

\* x is y up to the rounding of the arithmetic
Near(x, y) ==
    IsNum[x] /\ IsNum[y]
    /\ Le[AbsQ[Sub[x, y]], Mul[Q[1, 100], Add[I[1], AbsQ[y]]]]

\* C10 as stated: for a surface pressure equal to a pressure-table entry
\* tpres[k] the pressure fraction is exactly 0 or 1 and the outputs of
\* comproatm, comptrans and compsalb equal their values at the single
\* pressure level k
C10_GridPressureIsOneLevel ==
    \A w \in Workers :
        OnGrid(w) =>
            /\ Dpres(Env(w), L(w).ip1, L(w).ip2, pix[w].pres) \in {I[0], I[1]}
            /\ \A i \in Assigned(w) :
                  Composed(w)[i] = AtLevel(w, LevelOf(Env(w), pix[w].pres))[i]
\* C10: for a surface pressure equal to a pressure-table entry tpres[k] the
\* pressure fraction is exactly 0 with k = ip1, or exactly 1 with k = ip2;
\* each composer returns v1 + (v2 - v1) * dpres over its values v1, v2 at the
\* levels ip1, ip2, which is the level-k value exactly when dpres = 0 and
\* v2 - v1 is a finite number, and the level-k value up to the rounding of
\* v1 + (v2 - v1) when dpres = 1 and v1, v2 are finite numbers
C10_GridPressureUpToRounding ==
    \A w \in Workers :
        OnGrid(w) =>
            LET k == LevelOf(Env(w), pix[w].pres)
                d == Dpres(Env(w), L(w).ip1, L(w).ip2, pix[w].pres)
                v1 == AtLevel(w, L(w).ip1)
                v2 == AtLevel(w, L(w).ip2)
            IN /\ (d = I[0] /\ k = L(w).ip1) \/ (d = I[1] /\ k = L(w).ip2)
               /\ \A i \in Assigned(w) :
                     /\ Composed(w)[i] = Add[v1[i], Mul[Sub[v2[i], v1[i]], d]]
                     /\ (d = I[0] /\ IsNum[Sub[v2[i], v1[i]]]) =>
                            Composed(w)[i] = v1[i]
                     /\ (d = I[1] /\ IsNum[v1[i]] /\ IsNum[v2[i]]) =>
                            /\ Composed(w)[i] = Add[v1[i], Sub[v2[i], v1[i]]]
                            /\ Near(Composed(w)[i], v2[i])
C10_Witness ==
    \E w \in Workers :
        /\ OnGrid(w) /\ lut.kind = "full"
        /\ LevelOf(Env(w), pix[w].pres) = 3
        /\ L(w).ip2 = 3
        /\ \A i \in 1..4 :
              /\ Composed(w)[i] = AtLevel(w, 3)[i]
              /\ Composed(w)[i] # AtLevel(w, 2)[i]
              /\ IsNum[Composed(w)[i]]


\* the entry k of the AOT table with aot550nm[k] = a exactly, or -1
EntryOf(E, a) ==
    LastOf({k + 1 : k \in {j \in 0..(NAOT_VALS - 1) : Tb(E, "aot550nm", j) = a}}) - 1

\* the reflectance comproatm interpolates for worker w at pressure level ip
\* and AOT entry k
ReflAtEntry(w, ip, k) ==
    LET E == Env(w)
        l == L(w)
        p == pix[w]
    IN interp_refl_using_scat_angle(E, l.its, l.itv,
           FourCells(E, "tsmax", l.its, l.itv), FourCells(E, "tsmin", l.its, l.itv),
           ScatAngle[Geo(w).xmus, Geo(w).xmuv, Geo(w).cosxfi],
           FourCells(E, "nbfic", l.its, l.itv), FourCells(E, "nbfi", l.its, l.itv),
           p.iband * NPRES_VALS * NAOTxNSOLAR_VALS + ip * NAOTxNSOLAR_VALS
               + k * NSOLAR_VALS,
           SunParam(E, l.its, p.xts), ViewParam(E, l.its, l.itv, p.xtv))

\* worker w has comproatm behind it with an AOT that is an AOT-table entry
OnAotGrid(w) ==
    Past(w, "salb") /\ pc[w] = "tg" /\ EntryOf(Env(w), L(w).mraot550nm) >= 0

\* C11: for an AOT equal to an AOT-table entry aot550nm[k] the cached
\* logarithm of entry k is ln (aot550nm[k]), the log-space AOT fraction of
\* comproatm is exactly 0 or 1, and at each of the two pressure levels the
\* reflectance blended over AOT is the reflectance interpolated at entry k
C11_GridAotIsOneEntry ==
    \A w \in Workers :
        OnAotGrid(w) =>
            LET E == Env(w)
                l == L(w)
                k == EntryOf(E, l.mraot550nm)
            IN /\ logaot550nm[k] = Log[Tb(E, "aot550nm", k)]
               /\ LogDeltaAot[l.iaot1, l.iaot2, l.mraot550nm] \in {I[0], I[1]}
               /\ \A ip \in {l.ip1, l.ip2} :
                     IsNum[ReflAtEntry(w, ip, k)] =>
                        AtLevel(w, ip)[1] = ReflAtEntry(w, ip, k)

\* worker w has the composers behind it, its AOT is the second entry of the
\* AOT table and its pressure the first entry of the pressure table
OnCorner(w) ==
    /\ Past(w, "salb") /\ pc[w] = "tg"
    /\ L(w).mraot550nm = Tb(Env(w), "aot550nm", 1)
    /\ pix[w].pres = Tb(Env(w), "tpres", 0)

\* the table values at [band][pressure 0][AOT k] for worker w, in the order
\* of Composed: the reflectance and the transmissions (solar, view)
\* interpolated over the angles at that corner, and the spherical albedo
CornerValues(w, k) ==
    <<ReflAtEntry(w, 0, k),
      TransCorner(Env(w), 0, k, L(w).its, pix[w].xts, pix[w].iband),
      Tb(Env(w), "sphalbt", pix[w].iband * NPRES_VALS * NAOT_VALS + k),
      TransCorner(Env(w), 0, k, SunIndex[pix[w].xtv, XTVMIN, XTVSTEP], pix[w].xtv,
                  pix[w].iband)>>

\* C12 as stated: with the AOT equal to aot550nm[1] and the pressure equal
\* to tpres[0] the brackets are ip1 = 0, ip2 = 1, iaot1 = 0, iaot2 = 1 and
\* the outputs of comproatm, comptrans and compsalb are the table values at
\* [band][pressure 0][AOT 1]
C12_CornerIsRawValue ==
    \A w \in Workers :
        OnCorner(w) =>
            /\ L(w).ip1 = 0 /\ L(w).ip2 = 1 /\ L(w).iaot1 = 0 /\ L(w).iaot2 = 1
            /\ \A i \in Assigned(w) : Composed(w)[i] = CornerValues(w, 1)[i]
\* C12: with the AOT equal to aot550nm[1] and the pressure equal to tpres[0]
\* the brackets are ip1 = 0, ip2 = 1, iaot1 = 0, iaot2 = 1, the pressure
\* fraction is 0 and the AOT fraction 1; wherever the values at the four
\* bracket corners are finite each composer returns c0 + (c1 - c0) * f over
\* the values c0, c1 at [band][pressure 0][AOT 0] and [AOT 1] and its AOT
\* fraction f, which is the [AOT 1] value up to the rounding of the
\* arithmetic
C12_CornerUpToRounding ==
    \A w \in Workers :
        OnCorner(w) =>
            LET l == L(w)
                c0 == CornerValues(w, 0)
                c1 == CornerValues(w, 1)
                f == [i \in 1..4 |->
                        IF i = 1 THEN LogDeltaAot[0, 1, l.mraot550nm]
                        ELSE DeltaAot(Env(w), 0, 1, l.mraot550nm)]
            IN /\ l.ip1 = 0 /\ l.ip2 = 1 /\ l.iaot1 = 0 /\ l.iaot2 = 1
               /\ Dpres(Env(w), 0, 1, pix[w].pres) = I[0]
               /\ \A i \in 1..4 : f[i] = I[1]
               /\ \A i \in Assigned(w) :
                     (IsNum[c0[i]] /\ IsNum[c1[i]] /\ IsNum[AtLevel(w, 1)[i]]) =>
                        /\ Composed(w)[i] = Add[c0[i], Mul[Sub[c1[i], c0[i]], f[i]]]
                        /\ Near(Composed(w)[i], c1[i])
C12_Witness ==
    \E w \in Workers :
        /\ OnCorner(w) /\ lut.kind = "full"
        /\ \A i \in 1..4 :
              /\ IsNum[Composed(w)[i]]
              /\ Composed(w)[i] # CornerValues(w, 0)[i]
              /\ Near(Composed(w)[i], CornerValues(w, 1)[i])
        /\ Composed(w)[1] # CornerValues(w, 1)[1]

\* x is a number and at most 1.0E-06
AtMostMicro(x) == IsNum[x] /\ x[1] <= x[2] \div 1000000

\* worker w is in atmcorlamb2 and has just left comptg
PastComptg(w) == fn[w] = "atmcorlamb2" /\ pc[w] = "chand"

\* the water-vapor transmission of worker w's band at the airmass-weighted
\* content x, without any test
WvFormula(w, x) ==
    Exp[Mul[Neg[Tb(Env(w), "wvtransa", pix[w].iband)],
            Pow[x, Tb(Env(w), "wvtransb", pix[w].iband)]]]

PastLocalChand(w) ==
    /\ fn[w] = "atmcorlamb2"
    /\ pc[w] = "invert" \/ (pc[w] = "done" /\ ret[w] = SUCCESS)

\* C14: whatever the optical depth, the molecular reflectance local_chand
\* returns for the call's angles lies within [0, 1]
C14_RayleighInUnitRange ==
    \A w \in Workers :
        PastLocalChand(w) =>
            Ge[out[w].xrorayp, I[0]] /\ Le[out[w].xrorayp, I[1]]

\* the automatic variables that only comproatm, comptrans, comptg and the
\* lines of atmcorlamb2 after the range check assign
LateLocals == {"roatm_lut", "xtts", "xttv", "atm_pres", "tg"}

\* C15: when atmcorlamb2 returns ERROR it does so from the solar range
\* check alone, straight after the indices were computed: no output
\* parameter has been written, none of the variables the composers and
\* comptg assign has changed since the call began, and no function it calls
\* has reported an error
C15_ErrorBeforeAnyWork ==
    \A w \in Workers :
        (Returned(w, "atmcorlamb2") /\ ret[w] = ERROR) =>
            /\ out[w] = NoOut
            /\ \A v \in LateLocals : L(w)[v] = FreshLocals(pix[w].junk)[v]
            /\ errs[w] = {"atmcorlamb2"}
            /\ L(w).its > 19
C15_Witness ==
    \E w \in Workers :
        /\ Returned(w, "atmcorlamb2") /\ ret[w] = ERROR
        /\ pix[w].xts = I[85] /\ pix[w].junk = 1
        /\ out[w] = NoOut /\ L(w).its = 21

\* C16: whatever the pressure, the AOT and the tables, the brackets of
\* atmcorlamb2 satisfy 0 <= ip1, ip2 = ip1 + 1 <= NPRES_VALS - 1,
\* 0 <= iaot1 <= NAOT_VALS - 2 and iaot2 = iaot1 + 1 <= NAOT_VALS - 1
C16_BracketsInTable ==
    \A w \in Workers :
        Past(w, "index") =>
            /\ 0 <= L(w).ip1
            /\ L(w).ip2 = L(w).ip1 + 1 /\ L(w).ip2 <= NPRES_VALS - 1
            /\ 0 <= L(w).iaot1 /\ L(w).iaot1 <= NAOT_VALS - 2
            /\ L(w).iaot2 = L(w).iaot1 + 1 /\ L(w).iaot2 <= NAOT_VALS - 1
C16_Witness ==
    \E w \in Workers :
        /\ Past(w, "index")
        /\ Lt[pix[w].pres, Tb(Env(w), "tpres", NPRES_VALS - 1)]
        /\ Gt[L(w).mraot550nm, Tb(Env(w), "aot550nm", NAOT_VALS - 1)]
        /\ L(w).ip2 = NPRES_VALS - 1 /\ L(w).iaot2 = NAOT_VALS - 1

\* the entries of a table of n entries, the last Skip ones left out, whose
\* value is above (Up) or below (~Up) the query x
Entries(w, name, n, Skip, x, Up) ==
    {i \in 0..(n - 1 - Skip) :
        IF Up THEN Gt[Tb(Env(w), name, i), x] ELSE Lt[Tb(Env(w), name, i), x]}

\* i is the last member of the set S of indices, or 0 when S is empty
IsLastOrZero(i, S) ==
    IF S = {} THEN i = 0 ELSE i \in S /\ \A k \in S : k <= i

\* C17 as stated: ip1 is the last index in [0, NPRES_VALS-2] whose table
\* value exceeds the pressure, or 0 when there is none, and for a pressure
\* below every entry but the last two the bracket is (NPRES_VALS-2,
\* NPRES_VALS-1)
C17_PressureBracketLastTwo ==
    \A w \in Workers :
        Past(w, "index") =>
            /\ IsLastOrZero(L(w).ip1,
                            Entries(w, "tpres", NPRES_VALS, 1, pix[w].pres, TRUE))
            /\ Entries(w, "tpres", NPRES_VALS, 2, pix[w].pres, TRUE)
                    = 0..(NPRES_VALS - 3)
                 => (L(w).ip1 = NPRES_VALS - 2 /\ L(w).ip2 = NPRES_VALS - 1)
\* C17: ip1 is the last index in [0, NPRES_VALS-2] whose table value exceeds
\* the pressure, or 0 when there is none, and ip2 = ip1 + 1; for a pressure
\* below every entry but the last one the bracket is (NPRES_VALS-2,
\* NPRES_VALS-1), and for a pressure below every entry but the last two and
\* not below the last but one it is (NPRES_VALS-3, NPRES_VALS-2)
C17_PressureBracket ==
    \A w \in Workers :
        Past(w, "index") =>
            LET Above(Skip) == Entries(w, "tpres", NPRES_VALS, Skip, pix[w].pres, TRUE)
            IN /\ IsLastOrZero(L(w).ip1, Above(1))
               /\ L(w).ip2 = L(w).ip1 + 1
               /\ Above(1) = 0..(NPRES_VALS - 2)
                    => (L(w).ip1 = NPRES_VALS - 2 /\ L(w).ip2 = NPRES_VALS - 1)
               /\ (Above(2) = 0..(NPRES_VALS - 3) /\ NPRES_VALS - 2 \notin Above(1))
                    => (L(w).ip1 = NPRES_VALS - 3 /\ L(w).ip2 = NPRES_VALS - 2)
C17_Witness ==
    \E w \in Workers :
        /\ Past(w, "index")
        /\ pix[w].pres = Tb(Env(w), "tpres", NPRES_VALS - 1)
        /\ L(w).ip1 = NPRES_VALS - 2

\* C18 as stated: iaot1 is the last index in [0, NAOT_VALS-2] whose table
\* value exceeds the AOT (the test of the pressure scan), or 0 when there is
\* none, and iaot2 = iaot1 + 1
C18_AotBracketAsPressure ==
    \A w \in Workers :
        Past(w, "index") =>
            /\ IsLastOrZero(L(w).iaot1,
                            Entries(w, "aot550nm", NAOT_VALS, 1, L(w).mraot550nm, TRUE))
            /\ L(w).iaot2 = L(w).iaot1 + 1
\* C18: iaot1 is the last index in [0, NAOT_VALS-2] whose table value is
\* below the AOT (the AOT exceeds it: the mirror image of the pressure
\* scan's test), or 0 when there is none, and iaot2 = iaot1 + 1
C18_AotBracket ==
    \A w \in Workers :
        Past(w, "index") =>
            /\ IsLastOrZero(L(w).iaot1,
                            Entries(w, "aot550nm", NAOT_VALS, 1, L(w).mraot550nm, FALSE))
            /\ L(w).iaot2 = L(w).iaot1 + 1
C18_Witness ==
    \E w \in Workers :
        /\ Past(w, "index")
        /\ L(w).mraot550nm = Q[7, 100]
        /\ L(w).iaot1 = 1 /\ L(w).iaot2 = 2
        /\ Lt[Tb(Env(w), "aot550nm", 1), L(w).mraot550nm]
        /\ Gt[Tb(Env(w), "aot550nm", 2), L(w).mraot550nm]

\* C19: itv is 0 for a view zenith angle of at most xtvmin and otherwise the
\* integer k = floor ((xtv - xtvmin) / xtvstep + 1), that is
\* xtvmin + (k - 1) * xtvstep <= xtv < xtvmin + k * xtvstep, however large
C19_ViewIndexUnbounded ==
    \A w \in Workers :
        Past(w, "index") =>
            LET k == L(w).itv
                xtv == pix[w].xtv
            IN IF Le[xtv, XTVMIN] THEN k = 0
               ELSE /\ k >= 1
                    /\ Le[Add[XTVMIN, Mul[I[k - 1], XTVSTEP]], xtv]
                    /\ Lt[xtv, Add[XTVMIN, Mul[I[k], XTVSTEP]]]
C19_Witness ==
    \E w \in Workers :
        /\ Past(w, "index")
        /\ pix[w].xtv = I[85]
        /\ L(w).itv = 23 /\ L(w).itv > NVIEW_ZEN_VALS - 1

\* the band of pixel p is one the angstrom adjustment applies to: eps >= 0
\* and a band index of at most DNL_BAND7 (Landsat 8/9) or DNS_BAND12
\* (Sentinel-2)
Adjusted(p) ==
    /\ Ge[p.eps, I[0]]
    /\ p.iband <= (IF p.sat \in {"SAT_LANDSAT_8", "SAT_LANDSAT_9"} THEN DNL_BAND7
                   ELSE DNS_BAND12)

\* (raot550nm / normext[iband][0][3]) * (lambda[iband] / 0.55)^(-eps) for
\* worker w's pixel
Rescaled(w) ==
    LET p == pix[w]
        lambda == IF p.sat \in {"SAT_LANDSAT_8", "SAT_LANDSAT_9"} THEN landsat_lambda
                  ELSE sentinel_lambda
    IN Mul[Div[p.raot550nm,
               Tb(Env(w), "normext", (p.iband * NPRES_VALS + 0) * NAOT_VALS + 3)],
           Pow[Div[Q[lambda[p.iband + 1], 1000], Q[55, 100]], Neg[p.eps]]]

\* C20: the AOT atmcorlamb2 works with is the rescaled value when eps >= 0
\* and the band is at most the sensor's last extinction-aware band, and the
\* input AOT for every other band and for eps < 0; atmcorlamb2_new starts
\* from the same value, computed with the same normext entry, before it
\* limits it to roatm_upper
C20_AngstromRescale ==
    \A w \in Workers :
        LET m == IF Adjusted(pix[w]) THEN Rescaled(w) ELSE pix[w].raot550nm
        IN /\ Past(w, "aot") => L(w).mraot550nm = m
           /\ Returned(w, "atmcorlamb2_new") =>
                 L(w).mraot550nm =
                    IF Ge[m, pix[w].roatm_upper] THEN pix[w].roatm_upper ELSE m
C20_Witness ==
    \E w \in Workers :
        /\ Past(w, "aot") /\ pc[w] = "index"
        /\ pix[w].sat = "SAT_SENTINEL_2" /\ pix[w].iband = DNS_BAND12
        /\ pix[w].eps = I[1]
        /\ IsNum[L(w).mraot550nm] /\ L(w).mraot550nm # pix[w].raot550nm

\* worker w is in atmcorlamb2 and comproatm has returned
PastComproatm(w) ==
    /\ fn[w] = "atmcorlamb2"
    /\ pc[w] \in {"transs", "transv", "salb", "tg", "chand", "invert"}
       \/ (pc[w] = "done" /\ ret[w] = SUCCESS)

\* the scattering angle of worker w's call
ScaaOf(w) == ScatAngle[Geo(w).xmus, Geo(w).xmuv, Geo(w).cosxfi]

\* corner i of worker w's call is one interp_refl_using_scat_angle
\* interpolates over the scattering angle
Interpolated(w, i) ==
    /\ L(w).its + (i % 2) # 0
    /\ (IF i < 2 THEN L(w).itv ELSE L(w).itv + 1) # 0

\* nbfi[i], and the bracket [isca, sca1, sca2] interp_refl_using_scat_angle
\* uses at corner i of worker w's call
NbfiAt(w, i) == FourCells(Env(w), "nbfi", L(w).its, L(w).itv)[i]
BracketAt(w, i) ==
    ScaCell[FourCells(Env(w), "tsmax", L(w).its, L(w).itv)[i],
            FourCells(Env(w), "tsmin", L(w).its, L(w).itv)[i],
            ScaaOf(w), NbfiAt(w, i)]

\* C21: at every corner interpolated over the scattering angle whose cell has
\* nbfi >= 1 samples, the bracket index satisfies 1 <= isca <= nbfi - 1, so
\* that the two samples read lie within the cell's block
C21_BracketIndexInBlock ==
    \A w \in Workers : \A i \in 0..(FOUR_PTS - 1) :
        (PastComproatm(w) /\ Interpolated(w, i) /\ Ge[NbfiAt(w, i), I[1]]) =>
            /\ 1 <= BracketAt(w, i).isca
            /\ Le[I[BracketAt(w, i).isca], Sub[NbfiAt(w, i), I[1]]]

\* (scaa - sca1) / (sca2 - sca1), the weight of the upper sample at corner i
\* of worker w's call
ScaWeight(w, i) ==
    Div[Sub[ScaaOf(w), BracketAt(w, i).sca1],
        Sub[BracketAt(w, i).sca2, BracketAt(w, i).sca1]]

\* C22: at every corner interpolated over the scattering angle, with its
\* cell inside the geometry tables, the weight (scaa - sca1) / (sca2 - sca1)
\* lies in [0, 1], whatever the scattering angle
C22_NoExtrapolation ==
    \A w \in Workers : \A i \in 0..(FOUR_PTS - 1) :
        (PastComproatm(w) /\ Interpolated(w, i) /\ ViewInTable(pix[w])) =>
            /\ Ge[ScaWeight(w, i), I[0]]
            /\ Le[ScaWeight(w, i), I[1]]

\* ro[i] of interp_refl_using_scat_angle for worker w's call, at pressure
\* level ip1 and AOT entry iaot1: the value at corner i
CornerAt(w, i) ==
    CornerRefl(Env(w), i, L(w).its, L(w).itv,
               FourCells(Env(w), "tsmax", L(w).its, L(w).itv),
               FourCells(Env(w), "tsmin", L(w).its, L(w).itv), ScaaOf(w),
               FourCells(Env(w), "nbfic", L(w).its, L(w).itv),
               FourCells(Env(w), "nbfi", L(w).its, L(w).itv),
               pix[w].iband * NPRES_VALS * NAOTxNSOLAR_VALS
                   + L(w).ip1 * NAOTxNSOLAR_VALS + L(w).iaot1 * NSOLAR_VALS)

\* the weights u t, u (1 - t), t (1 - u), (1 - u) (1 - t) of the corners
\* 0 .. 3
CornerWeights(t, u) ==
    [i \in 0..(FOUR_PTS - 1) |->
        Mul[IF i < 2 THEN u ELSE Sub[I[1], u], IF i % 2 = 0 THEN t ELSE Sub[I[1], t]]]

\* the solar angle is tts[its + a] and the view angle the tabulated view
\* angle of row itv + b
AtAngles(w, a, b) ==
    /\ pix[w].xts = Tb(Env(w), "tts", L(w).its + a)
    /\ pix[w].xtv = Tb(Env(w), "ttv", (L(w).itv + b) * NSOLAR_ZEN_VALS + L(w).its)


\* the sum of the four corner values c, each with its weight
Weighted(c, t, u) ==
    Add[Add[Add[Mul[CornerWeights(t, u)[0], c[0]], Mul[CornerWeights(t, u)[1], c[1]]],
            Mul[CornerWeights(t, u)[2], c[2]]],
        Mul[CornerWeights(t, u)[3], c[3]]]

\* worker w has just left comproatm, with a view angle inside the tables
LeftComproatm(w) ==
    fn[w] = "atmcorlamb2" /\ pc[w] = "transs" /\ ViewInTable(pix[w])

\* C23 as stated: with corner i at solar index its + (i mod 2) and view index
\* itv + (i div 2), the blend of interp_refl_using_scat_angle is exactly the
\* value of the corner (its + a, itv + b) when the solar angle is tts[its + a]
\* and the view angle the tabulated view angle of row itv + b
C23_BlendExactAtCorners ==
    \A w \in Workers : \A a \in {0, 1}, b \in {0, 1} :
        (LeftComproatm(w) /\ AtAngles(w, a, b)) =>
            ReflAtEntry(w, L(w).ip1, L(w).iaot1) = CornerAt(w, a + 2 * b)
\* C23: with corner i at solar index its + (i mod 2) and view index
\* itv + (i div 2), t = (tts[its+1] - xts) / (tts[its+1] - tts[its]) and u the
\* same ratio over the view angles of the rows itv and itv + 1, the blend of
\* interp_refl_using_scat_angle is c3 + u (c1 - c3) + t (c2 - c3)
\* + u t (c0 - c1 - c2 + c3); when the solar angle is tts[its + a] and the
\* view angle that of row itv + b, t = 1 - a and u = 1 - b, and where the
\* four corner values are finite the blend is the value of corner a + 2 b up
\* to the rounding of that sum; for t, u in [0, 1] the weights u t, u (1 - t),
\* t (1 - u), (1 - u) (1 - t) are not negative, sum to 1, and the blend is
\* the weighted sum of the finite corner values up to rounding
C23_BlendAtCorners ==
    \A w \in Workers :
        LeftComproatm(w) =>
            LET t == SunParam(Env(w), L(w).its, pix[w].xts)
                u == ViewParam(Env(w), L(w).its, L(w).itv, pix[w].xtv)
                r == ReflAtEntry(w, L(w).ip1, L(w).iaot1)
                c == [i \in 0..(FOUR_PTS - 1) |-> CornerAt(w, i)]
                finite == \A i \in 0..(FOUR_PTS - 1) : IsNum[c[i]]
            IN /\ \A a \in {0, 1}, b \in {0, 1} :
                     AtAngles(w, a, b) =>
                        /\ t = I[1 - a] /\ u = I[1 - b]
                        /\ finite => Near(r, c[a + 2 * b])
               /\ (Ge[t, I[0]] /\ Le[t, I[1]] /\ Ge[u, I[0]] /\ Le[u, I[1]]) =>
                     /\ \A i \in 0..(FOUR_PTS - 1) : Ge[CornerWeights(t, u)[i], I[0]]
                     /\ Add[Add[Add[CornerWeights(t, u)[0], CornerWeights(t, u)[1]],
                                CornerWeights(t, u)[2]], CornerWeights(t, u)[3]] = I[1]
                     /\ finite => Near(r, Weighted(c, t, u))
C23_Witness ==
    \E w \in Workers :
        /\ LeftComproatm(w) /\ lut.kind = "full"
        /\ AtAngles(w, 0, 0) /\ pix[w].xts = I[20] /\ L(w).itv = 4
        /\ \A i \in 0..(FOUR_PTS - 1) : IsNum[CornerAt(w, i)]
        /\ ReflAtEntry(w, L(w).ip1, L(w).iaot1) # CornerAt(w, 0)
        /\ Near(ReflAtEntry(w, L(w).ip1, L(w).iaot1), CornerAt(w, 0))
        /\ ~Near(ReflAtEntry(w, L(w).ip1, L(w).iaot1), CornerAt(w, 3))

\* the value at pressure level ip and AOT entry k that comproatm (i = 1),
\* comptrans for the solar (2) and view (4) angle and compsalb (3) blend for
\* worker w, i in the order of Composed
BlendCorner(w, ip, k, i) ==
    CASE i = 1 -> ReflAtEntry(w, ip, k)
      [] i = 2 -> TransCorner(Env(w), ip, k, L(w).its, pix[w].xts, pix[w].iband)
      [] i = 3 -> Tb(Env(w), "sphalbt",
                     pix[w].iband * NPRES_VALS * NAOT_VALS + ip * NAOT_VALS + k)
      [] i = 4 -> TransCorner(Env(w), ip, k, SunIndex[pix[w].xtv, XTVMIN, XTVSTEP],
                              pix[w].xtv, pix[w].iband)

\* (aot - aot550nm[iaot1]) / (aot550nm[iaot2] - aot550nm[iaot1]),
\* (ln (aot) - logaot[iaot1]) / (logaot[iaot2] - logaot[iaot1]) and
\* (pres - tpres[ip1]) / (tpres[ip2] - tpres[ip1]) for worker w
LinearFraction(w) ==
    Div[Sub[L(w).mraot550nm, Tb(Env(w), "aot550nm", L(w).iaot1)],
        Sub[Tb(Env(w), "aot550nm", L(w).iaot2), Tb(Env(w), "aot550nm", L(w).iaot1)]]
LogFraction(w) ==
    Div[Sub[Log[L(w).mraot550nm], logaot550nm[L(w).iaot1]],
        Sub[logaot550nm[L(w).iaot2], logaot550nm[L(w).iaot1]]]
PressureFraction(w) ==
    Div[Sub[pix[w].pres, Tb(Env(w), "tpres", L(w).ip1)],
        Sub[Tb(Env(w), "tpres", L(w).ip2), Tb(Env(w), "tpres", L(w).ip1)]]

\* x1 + (x2 - x1) * f
TwoPoint(x1, x2, f) == Add[x1, Mul[Sub[x2, x1], f]]

\* C24: the reflectance of comproatm, the transmissions of comptrans and the
\* albedo of compsalb are each v1 + (v2 - v1) * dpres with
\* vk = x_k1 + (x_k2 - x_k1) * deltaaot over the four (pressure, AOT) corners,
\* where dpres is the linear pressure fraction for all three and deltaaot the
\* log-space AOT fraction for comproatm and the linear one for the other two
C24_TwoStageBlend ==
    \A w \in Workers :
        (Past(w, "salb") /\ pc[w] = "tg") =>
            \A i \in Assigned(w) :
                LET f == IF i = 1 THEN LogFraction(w) ELSE LinearFraction(w)
                    v1 == TwoPoint(BlendCorner(w, L(w).ip1, L(w).iaot1, i),
                                   BlendCorner(w, L(w).ip1, L(w).iaot2, i), f)
                    v2 == TwoPoint(BlendCorner(w, L(w).ip2, L(w).iaot1, i),
                                   BlendCorner(w, L(w).ip2, L(w).iaot2, i), f)
                IN Composed(w)[i] = TwoPoint(v1, v2, PressureFraction(w))
C24_Witness ==
    \E w \in Workers :
        /\ Past(w, "salb") /\ pc[w] = "tg" /\ lut.kind = "full"
        /\ ViewInTable(pix[w])
        /\ Gt[LinearFraction(w), I[0]] /\ Lt[LinearFraction(w), I[1]]
        /\ Gt[LogFraction(w), I[0]] /\ Lt[LogFraction(w), I[1]]
        /\ LogFraction(w) # LinearFraction(w)
        /\ Gt[PressureFraction(w), I[0]] /\ Lt[PressureFraction(w), I[1]]
        /\ \A i \in 1..4 :
              /\ IsNum[Composed(w)[i]]
              /\ Composed(w)[i] # BlendCorner(w, L(w).ip1, L(w).iaot1, i)

\* the index comptrans computes for a zenith angle with the given minimum and
\* step selects a bracket of the sun-angle table that contains the angle,
\* and the angular fraction (angle - tts[its]) / 4 lies in [0, 1)
InSunBracket(E, angle, min, step) ==
    /\ Le[Tb(E, "tts", SunIndex[angle, min, step]), angle]
    /\ Lt[angle, Tb(E, "tts", SunIndex[angle, min, step] + 1)]
    /\ Ge[Mul[Sub[angle, Tb(E, "tts", SunIndex[angle, min, step])], Q[1, 4]], I[0]]
    /\ Lt[Mul[Sub[angle, Tb(E, "tts", SunIndex[angle, min, step])], Q[1, 4]], I[1]]

\* C25: in both comptrans calls of atmcorlamb2, for an angle at or above the
\* minimum that passes the index check, the index selects a bracket of the
\* sun-angle table that contains the angle (tts[its] <= angle < tts[its+1])
\* and the angular fraction lies in [0, 1)
C25_TransBracketHoldsAngle ==
    \A w \in Workers :
        /\ (fn[w] = "atmcorlamb2" /\ pc[w] = "transv"
            /\ Ge[pix[w].xts, XTSMIN] /\ SunIndex[pix[w].xts, XTSMIN, XTSSTEP] <= 19)
           => InSunBracket(Env(w), pix[w].xts, XTSMIN, XTSSTEP)
        /\ (fn[w] = "atmcorlamb2" /\ pc[w] = "salb"
            /\ Ge[pix[w].xtv, XTVMIN] /\ SunIndex[pix[w].xtv, XTVMIN, XTVSTEP] <= 19)
           => InSunBracket(Env(w), pix[w].xtv, XTVMIN, XTVSTEP)

\* C26: on every SUCCESS return of atmcorlamb2 the indices the call read the
\* tables with are within the tables' shapes: the pressure and AOT brackets,
\* the sun-angle indices its and its + 1 (tts, indts, the angle dimension of
\* the transmission table), the view rows itv and itv + 1 of the
\* scattering-geometry tables, and the band
C26_ReadsWithinTables ==
    \A w \in Workers :
        (Returned(w, "atmcorlamb2") /\ ret[w] = SUCCESS) =>
            /\ 0 <= L(w).ip1 /\ L(w).ip2 <= NPRES_VALS - 1
            /\ 0 <= L(w).iaot1 /\ L(w).iaot2 <= NAOT_VALS - 1
            /\ 0 <= L(w).its /\ L(w).its + 1 <= NSUNANGLE_VALS - 1
            /\ L(w).its + 1 <= NSOLAR_ZEN_VALS - 1
            /\ 0 <= L(w).itv /\ L(w).itv + 1 <= NVIEW_ZEN_VALS - 1
            /\ \A i \in 0..(FOUR_PTS - 1) :
                  InShape["nbfi", pix[w].sat,
                          L(w).itv * NSOLAR_ZEN_VALS + L(w).its + (i % 2)
                              + (i \div 2) * NSOLAR_ZEN_VALS]
            /\ InShape["tauray", pix[w].sat, pix[w].iband]
            /\ Adjusted(pix[w]) => InShape[LambdaOf[pix[w].sat], pix[w].sat, pix[w].iband]

\* C27: a call of atmcorlamb2 that returns SUCCESS has the outputs of every
\* call with the same inputs and tables that returns SUCCESS, whatever memory
\* image that call runs in, and comptrans has assigned both transmittances
C27_OutputsFromInputsAlone ==
    \A w \in Workers :
        (Returned(w, "atmcorlamb2") /\ ret[w] = SUCCESS) =>
            /\ "comptrans" \notin errs[w]
            /\ \A m \in 0..(NJunk - 1) :
                  LET again == SoloAtmcorlamb2(lut, [pix[w] EXCEPT !.junk = m])
                  IN again.ret = SUCCESS => again.out = out[w]

\* the pressure table of worker w is strictly descending and its AOT table
\* strictly increasing
Monotonic(w) ==
    /\ \A k \in 0..(NPRES_VALS - 2) :
          Gt[Tb(Env(w), "tpres", k), Tb(Env(w), "tpres", k + 1)]
    /\ \A k \in 0..(NAOT_VALS - 2) :
          Lt[Tb(Env(w), "aot550nm", k), Tb(Env(w), "aot550nm", k + 1)]

\* C28: with a strictly descending pressure table and a strictly increasing
\* AOT table, a pressure within [tpres[N_p-1], tpres[0]] lies in its bracket
\* (tpres[ip2] <= pres <= tpres[ip1]) with a pressure fraction in [0, 1], and
\* an AOT within [aot550nm[0], aot550nm[N_a-1]] lies in its bracket
\* (aot550nm[iaot1] <= aot <= aot550nm[iaot2]) with a linear AOT fraction in
\* [0, 1]
C28_BracketsHoldQuery ==
    \A w \in Workers :
        (fn[w] = "atmcorlamb2" /\ pc[w] = "check" /\ Monotonic(w)) =>
            /\ (/\ Le[Tb(Env(w), "tpres", NPRES_VALS - 1), pix[w].pres]
                /\ Le[pix[w].pres, Tb(Env(w), "tpres", 0)]) =>
                   /\ Le[Tb(Env(w), "tpres", L(w).ip2), pix[w].pres]
                   /\ Le[pix[w].pres, Tb(Env(w), "tpres", L(w).ip1)]
                   /\ Ge[PressureFraction(w), I[0]] /\ Le[PressureFraction(w), I[1]]
            /\ (/\ Le[Tb(Env(w), "aot550nm", 0), L(w).mraot550nm]
                /\ Le[L(w).mraot550nm, Tb(Env(w), "aot550nm", NAOT_VALS - 1)]) =>
                   /\ Le[Tb(Env(w), "aot550nm", L(w).iaot1), L(w).mraot550nm]
                   /\ Le[L(w).mraot550nm, Tb(Env(w), "aot550nm", L(w).iaot2)]
                   /\ Ge[LinearFraction(w), I[0]] /\ Le[LinearFraction(w), I[1]]
C28_Witness ==
    \E w \in Workers :
        /\ fn[w] = "atmcorlamb2" /\ pc[w] = "check" /\ Monotonic(w)
        /\ pix[w].pres = Tb(Env(w), "tpres", NPRES_VALS - 1)
        /\ L(w).mraot550nm = Tb(Env(w), "aot550nm", NAOT_VALS - 1)
        /\ L(w).ip1 = NPRES_VALS - 2 /\ L(w).iaot1 = NAOT_VALS - 2
        /\ PressureFraction(w) = I[1] /\ LinearFraction(w) = I[1]

\* x is a number other than 0
NonZero(x) == IsNum[x] /\ x[1] # 0

\* C29: with a strictly descending pressure table and a strictly increasing
\* AOT table, the denominators tpres[ip2] - tpres[ip1],
\* aot550nm[iaot2] - aot550nm[iaot1] and logaot550nm[iaot2] -
\* logaot550nm[iaot1] of the brackets atmcorlamb2 produces are not zero, and
\* the 22 entries of logaot550nm are strictly increasing
C29_DenominatorsNonZero ==
    /\ \A k \in 0..(NAOT_VALS - 2) : Lt[logaot550nm[k], logaot550nm[k + 1]]
    /\ \A w \in Workers :
          (fn[w] = "atmcorlamb2" /\ pc[w] = "check" /\ Monotonic(w)) =>
              /\ L(w).ip2 = L(w).ip1 + 1 /\ L(w).iaot2 = L(w).iaot1 + 1
              /\ NonZero(Sub[Tb(Env(w), "tpres", L(w).ip2), Tb(Env(w), "tpres", L(w).ip1)])
              /\ NonZero(Sub[Tb(Env(w), "aot550nm", L(w).iaot2),
                             Tb(Env(w), "aot550nm", L(w).iaot1)])
              /\ NonZero(Sub[logaot550nm[L(w).iaot2], logaot550nm[L(w).iaot1]])
C29_Witness ==
    \E w \in Workers :
        /\ fn[w] = "atmcorlamb2" /\ pc[w] = "check" /\ Monotonic(w)
        /\ L(w).iaot1 = 13 /\ L(w).iaot2 = 14 /\ L(w).ip1 = 1 /\ L(w).ip2 = 2
        /\ Sub[logaot550nm[14], logaot550nm[13]] = Q[1054, 10000]
        /\ Sub[Tb(Env(w), "tpres", 2), Tb(Env(w), "tpres", 1)] = I[-113]

\* rolutt[base + indts[is] + nbfic - nbfi] for corner i of worker w's call,
\* base being the block of pressure level ip1 and AOT entry iaot1
CornerSample(w, i) ==
    Tb(Env(w), "rolutt",
       pix[w].iband * NPRES_VALS * NAOTxNSOLAR_VALS + L(w).ip1 * NAOTxNSOLAR_VALS
           + L(w).iaot1 * NSOLAR_VALS
           + Trunc[Sub[Add[Tb(Env(w), "indts", L(w).its + (i % 2)),
                           FourCells(Env(w), "nbfic", L(w).its, L(w).itv)[i]],
                       NbfiAt(w, i)]])

\* ro[i] for worker w's call with the scattering angle of geometry g and the
\* scattering-angle range [lo, hi] in every cell
CornerWith(w, i, g, lo, hi) ==
    CornerRefl(Env(w), i, L(w).its, L(w).itv,
               [k \in 0..(FOUR_PTS - 1) |-> hi], [k \in 0..(FOUR_PTS - 1) |-> lo],
               ScatAngle[Geos[g].xmus, Geos[g].xmuv, Geos[g].cosxfi],
               FourCells(Env(w), "nbfic", L(w).its, L(w).itv),
               FourCells(Env(w), "nbfi", L(w).its, L(w).itv),
               pix[w].iband * NPRES_VALS * NAOTxNSOLAR_VALS
                   + L(w).ip1 * NAOTxNSOLAR_VALS + L(w).iaot1 * NSOLAR_VALS)

\* C30: the value of a corner whose solar index or view index is 0 is the
\* single sample rolutt[base + indts[is] + nbfic - nbfi], whatever the
\* scattering angle and the cell's tsmax and tsmin; the value of a corner
\* with both indices non-zero is the line through the two samples of its
\* bracket, taken at the scattering angle
C30_EdgeCornersAreSamples ==
    \A w \in Workers : \A i \in 0..(FOUR_PTS - 1) :
        LeftComproatm(w) =>
            IF Interpolated(w, i)
            THEN CornerAt(w, i) =
                    ScatLine[Tb(Env(w), "rolutt",
                                pix[w].iband * NPRES_VALS * NAOTxNSOLAR_VALS
                                    + L(w).ip1 * NAOTxNSOLAR_VALS
                                    + L(w).iaot1 * NSOLAR_VALS
                                    + Trunc[Sub[Add[Tb(Env(w), "indts", L(w).its + (i % 2)),
                                                    FourCells(Env(w), "nbfic", L(w).its,
                                                              L(w).itv)[i]],
                                                NbfiAt(w, i)]]
                                    + BracketAt(w, i).isca - 1),
                             Tb(Env(w), "rolutt",
                                pix[w].iband * NPRES_VALS * NAOTxNSOLAR_VALS
                                    + L(w).ip1 * NAOTxNSOLAR_VALS
                                    + L(w).iaot1 * NSOLAR_VALS
                                    + Trunc[Sub[Add[Tb(Env(w), "indts", L(w).its + (i % 2)),
                                                    FourCells(Env(w), "nbfic", L(w).its,
                                                              L(w).itv)[i]],
                                                NbfiAt(w, i)]]
                                    + BracketAt(w, i).isca),
                             ScaaOf(w), BracketAt(w, i).sca1, BracketAt(w, i).sca2]
            ELSE /\ CornerAt(w, i) = CornerSample(w, i)
                 /\ \A g \in 1..Len(Geos) :
                       /\ CornerWith(w, i, g, I[0], I[180]) = CornerSample(w, i)
                       /\ CornerWith(w, i, g, I[100], I[120]) = CornerSample(w, i)
C30_Witness ==
    \E w \in Workers :
        /\ LeftComproatm(w) /\ lut.kind = "full"
        /\ L(w).its = 0 /\ L(w).itv = 1
        /\ ~Interpolated(w, 0) /\ Interpolated(w, 1) /\ ~Interpolated(w, 2)
        /\ Interpolated(w, 3)
        /\ CornerAt(w, 2) = CornerSample(w, 2) /\ IsNum[CornerAt(w, 2)]
        /\ IsNum[CornerAt(w, 3)] /\ CornerAt(w, 3) # CornerSample(w, 3)
        /\ CornerWith(w, 3, 1, I[100], I[120]) # CornerWith(w, 3, 2, I[100], I[120])
====
